---- MODULE Spec2Model ----
(***************************************************************************)
(* Model of the MinPol pipeline of ProyectoGUIFuentes.                     *)
(*                                                                         *)
(* This part models utilities/checker.py: verificar_solucion, the solution *)
(* verifier.  One call of verificar_solucion is a run of the state machine *)
(* below: the inputs are chosen in Init, and each section of the function  *)
(* (the numpy conversion, the five constraints, the polarization, the      *)
(* summary) is one action.  An exception ends the run in pc = "error"; the *)
(* checks already recorded stay in the variables, as they stay in the      *)
(* local list `result` that is then discarded.                             *)
(*                                                                         *)
(* Conventions.  TLA+ sequences are 1-based: x[k][i][j] here is            *)
(* x[k-1][i-1][j-1] of the code.  Real numbers are fixed point: costs and  *)
(* the two budgets are in hundredths (1.5 is 150), the opinion values v    *)
(* and the polarization are in thousandths (0.297 is 297).                 *)
(***************************************************************************)
EXTENDS Integers, Sequences, FiniteSets, TLC

\* ---------------------------------------------------------------- bounds
\* Largest number of opinions m of an instance.
MaxM == 3
\* Largest number of people in one entry of a move matrix, of p and of s.
MaxPersonas == 2
\* The counts tried for an entry: none, one, the most.
Cantidades == {0, 1, MaxPersonas}

\* ------------------------------------------------------ program constants
\* range(3): the three resistance tiers.
NumNiveles == 3
\* The tolerance 0.01 of the two budget checks, in hundredths.
Tolerancia == 1
\* resistencia = [1.0, 1.5, 2.0], in hundredths.
resistencia == <<100, 150, 200>>

Niveles == 1..NumNiveles

VARIABLES
    m,          \* number of opinions
    x,          \* the three move matrices, as lists of rows
    p,          \* initial distribution
    s,          \* m x 3 availability matrix
    v,          \* opinion values (thousandths)
    n,          \* total population
    ct_max,     \* cost budget (hundredths)
    maxMovs,    \* movement budget (hundredths)
    pc,         \* the section of verificar_solucion about to run
    viol1,      \* the (k,i) pairs reported by constraint 1
    viol2,      \* the (k,i) pairs reported by constraint 2
    viol3,      \* constraint 3 reported a violation
    viol4,      \* constraint 4 reported a violation
    viol5,      \* constraint 5 reported a violation
    valido,     \* the local flag valido
    q_final,    \* the recomputed final distribution
    costo_total,            \* hundredths
    movimientos_totales,
    mediana,                \* thousandths
    polarizacion,           \* thousandths
    veredicto,  \* "ninguno", "VALIDA" or "INVALIDA"
    error,      \* the exception that ended the call and the section it
                \* was raised in (both "ninguno" while there is none)
    parser,     \* one call of parser.parse_minizinc_output
    conversor,  \* one call of convert_txt_to_dzn, then of parse_dzn_input
    guardado,   \* one call of MinPolGUI._guardar_solucion_txt
    worker,     \* one run of the MinizincWorker thread
    gui         \* the MinPolGUI window: attributes, buttons, pending signal

entradas == <<m, x, p, s, v, n, ct_max, maxMovs>>
locales == <<viol1, viol2, viol3, viol4, viol5, valido, q_final, costo_total,
             movimientos_totales, mediana, polarizacion>>
verificador == <<entradas, locales, pc, veredicto, error>>
\* The other components of the pipeline, one record each.
componentes == <<parser, conversor, guardado, worker, gui>>
vars == <<verificador, componentes>>

\* A component that is not running.
Inactivo == [pc |-> "inactivo"]

\* ------------------------------------------------------ numpy operations
RECURSIVE SumSeq(_)
\* ndarray.sum() of a one-dimensional array.
SumSeq(f) == IF Len(f) = 0 THEN 0 ELSE f[1] + SumSeq(Tail(f))

Abs(a) == IF a < 0 THEN -a ELSE a

\* The number of rows of a matrix given as a list of rows.
NumFilas(M) == Len(M)

\* np.array gives a two-dimensional array only when all rows are as long.
EsRectangular(M) == \A a, b \in 1..Len(M) : Len(M[a]) = Len(M[b])

\* The number of columns of a rectangular matrix (0 for the empty list).
NumCols(M) == IF Len(M) = 0 THEN 0 ELSE Len(M[1])

\* x_arrays[k][:, i]: column i over all the rows the array has.
Columna(M, i) == [r \in 1..Len(M) |-> M[r][i]]

\* ------------------------------------------- verificar_solucion, sections
\* Line 30: np.array(x[k]); a list of rows of different lengths is no matrix.
Convertible == \A k \in Niveles : EsRectangular(x[k])

\* Line 44: movimientos_desde_i = x_arrays[k][i].sum()
MovimientosDesde(k, i) == SumSeq(x[k][i])

\* Mutant of ExcedeDisponibles: >= for >.
ExcedeDisponiblesMut(movs, disponibles) == movs >= disponibles

\* Line 47: if movimientos_desde_i > disponibles
ExcedeDisponibles(movs, disponibles) == movs > disponibles

\* Lines 42-50: the (k, i) pairs for which constraint 1 appends a violation.
ViolacionesConservacion ==
    {ki \in Niveles \X (1..m) :
        ExcedeDisponibles(MovimientosDesde(ki[1], ki[2]), s[ki[2]][ki[1]])}

\* Lines 59-64: the (k, i) pairs for which constraint 2 appends a violation.
AutoMovimientos == {ki \in Niveles \X (1..m) : x[ki[1]][ki[2]][ki[2]] > 0}

\* Mutant of Salidas: the outflow of the first tier only.
SalidasMut(i) == SumSeq(x[1][i])

\* Line 76: salidas = sum(x_arrays[k][i].sum() for k in range(3))
Salidas(i) == SumSeq([k \in Niveles |-> SumSeq(x[k][i])])

\* Mutant of Llegadas: the row of i summed where the column is meant.
LlegadasMut(i) == SumSeq([k \in Niveles |-> SumSeq(x[k][i])])

\* Line 77: llegadas = sum(x_arrays[k][:, i].sum() for k in range(3))
Llegadas(i) == SumSeq([k \in Niveles |-> SumSeq(Columna(x[k], i))])

\* Lines 74-79: q_final
DistribucionFinal == [i \in 1..m |-> p[i] - Salidas(i) + Llegadas(i)]

\* Mutant of CostoMovimiento: the distance |i - j| left out.
CostoMovimientoMut(k, i, j) == x[k][i][j] * resistencia[k]

\* Line 100: costo_movimiento = x_arrays[k][i][j] * abs(i - j) * resistencia[k]
CostoMovimiento(k, i, j) == x[k][i][j] * Abs(i - j) * resistencia[k]

\* Lines 95-101: costo_total
CostoTotal ==
    SumSeq([k \in Niveles |-> SumSeq([i \in 1..m |-> SumSeq([j \in 1..m |->
        IF i # j /\ x[k][i][j] > 0 THEN CostoMovimiento(k, i, j) ELSE 0])])])

\* Lines 95-101: costo_total starts as the Python float 0.0 and becomes a
\* numpy float64 as soon as one term is added to it.
CostoEsNumpy ==
    \E k \in Niveles, i \in 1..m, j \in 1..m : i # j /\ x[k][i][j] > 0

\* Line 106: if costo_total > ct_max + 0.01
ExcedeCosto(costo) == costo > ct_max + Tolerancia

\* Lines 116-121: movimientos_totales
MovimientosTotales ==
    SumSeq([k \in Niveles |-> SumSeq([i \in 1..m |-> SumSeq([j \in 1..m |->
        IF i # j THEN x[k][i][j] * Abs(i - j) ELSE 0])])])

\* Lines 116-121: movimientos_totales starts as the Python int 0 and becomes
\* a numpy int64 as soon as one term (zero or not) is added to it.
MovimientosEsNumpy == \E i \in 1..m, j \in 1..m : i # j

\* Mutant of ExcedeMovimientos: the tolerance left out.
ExcedeMovimientosMut(movs) == movs * 100 > maxMovs

\* Line 126: if movimientos_totales > maxMovs + 0.01.  movimientos_totales is
\* an integer, maxMovs is in hundredths.
ExcedeMovimientos(movs) == movs * 100 > maxMovs + Tolerancia

\* Mutant of PosMediana: n // 2.
PosMedianaMut == n \div 2

\* Line 138: pos_mediana = (n + 1) // 2
PosMediana == (n + 1) \div 2

RECURSIVE BuscarMediana(_, _, _)
\* Lines 139-146: the loop over i with the running sum acum; mediana keeps
\* v_array[0] when the loop ends without a break.
BuscarMediana(q, i, acum) ==
    IF i > m THEN v[1]
    ELSE IF acum + q[i] >= PosMediana THEN v[i]
    ELSE BuscarMediana(q, i + 1, acum + q[i])

\* Line 151: polarizacion = sum(q_final[i] * abs(v_array[i] - mediana) ...)
Polarizacion(q, med) == SumSeq([i \in 1..m |-> q[i] * Abs(v[i] - med)])

\* ------------------------------------------------------------- actions
Fallar(excepcion) ==
    /\ pc' = "error"
    /\ error' = [tipo |-> excepcion, en |-> pc]

\* Lines 29-38.  A ragged list makes np.array raise ValueError (numpy >= 1.24)
\* or build an array of list objects whose rows have no sum() (older numpy,
\* AttributeError at line 44): either way the call ends in an exception
\* before any check is made.
Convertir ==
    /\ pc = "convertir"
    /\ IF Convertible
         THEN pc' = "r1" /\ error' = error
         ELSE Fallar("ValueError")
    /\ UNCHANGED <<entradas, locales, veredicto>>
    /\ UNCHANGED componentes

\* Lines 40-54.  x_arrays[k][i] needs row i: IndexError when a matrix has
\* fewer than m rows.
Restriccion1 ==
    /\ pc = "r1"
    /\ IF \E k \in Niveles : NumFilas(x[k]) < m
         THEN Fallar("IndexError") /\ UNCHANGED <<viol1, valido>>
         ELSE /\ viol1' = ViolacionesConservacion
              /\ valido' = (ViolacionesConservacion = {})
              /\ pc' = "r2"
              /\ error' = error
    /\ UNCHANGED <<entradas, viol2, viol3, viol4, viol5, q_final, costo_total,
                   movimientos_totales, mediana, polarizacion, veredicto>>
    /\ UNCHANGED componentes

\* Lines 56-68.  x_arrays[k][i][i] needs column i: IndexError when a matrix
\* has fewer than m columns.
Restriccion2 ==
    /\ pc = "r2"
    /\ IF \E k \in Niveles : NumCols(x[k]) < m
         THEN Fallar("IndexError") /\ UNCHANGED <<viol2, valido>>
         ELSE /\ viol2' = AutoMovimientos
              /\ valido' = (valido /\ AutoMovimientos = {})
              /\ pc' = "r3"
              /\ error' = error
    /\ UNCHANGED <<entradas, viol1, viol3, viol4, viol5, q_final, costo_total,
                   movimientos_totales, mediana, polarizacion, veredicto>>
    /\ UNCHANGED componentes

\* Lines 70-90.
Restriccion3 ==
    /\ pc = "r3"
    /\ q_final' = DistribucionFinal
    /\ viol3' = (SumSeq(DistribucionFinal) # n)
    /\ valido' = (valido /\ SumSeq(DistribucionFinal) = n)
    /\ pc' = "r4"
    /\ UNCHANGED <<entradas, viol1, viol2, viol4, viol5, costo_total,
                   movimientos_totales, mediana, polarizacion, veredicto, error>>
    /\ UNCHANGED componentes

\* Lines 92-111.  The passing branch formats costo_total/ct_max*100: with
\* ct_max = 0 a Python float raises ZeroDivisionError, a numpy float64 gives
\* inf or nan with a warning.
Restriccion4 ==
    /\ pc = "r4"
    /\ costo_total' = CostoTotal
    /\ IF ExcedeCosto(CostoTotal)
         THEN viol4' = TRUE /\ valido' = FALSE /\ pc' = "r5" /\ error' = error
         ELSE IF ct_max = 0 /\ ~CostoEsNumpy
           THEN Fallar("ZeroDivisionError") /\ UNCHANGED <<viol4, valido>>
           ELSE pc' = "r5" /\ UNCHANGED <<viol4, valido, error>>
    /\ UNCHANGED <<entradas, viol1, viol2, viol3, viol5, q_final,
                   movimientos_totales, mediana, polarizacion, veredicto>>
    /\ UNCHANGED componentes

\* Lines 113-131.  The passing branch formats movimientos_totales/maxMovs*100:
\* with maxMovs = 0 a Python int raises ZeroDivisionError, a numpy int64
\* gives nan with a warning.
Restriccion5 ==
    /\ pc = "r5"
    /\ movimientos_totales' = MovimientosTotales
    /\ IF ExcedeMovimientos(MovimientosTotales)
         THEN viol5' = TRUE /\ valido' = FALSE /\ pc' = "pol" /\ error' = error
         ELSE IF maxMovs = 0 /\ ~MovimientosEsNumpy
           THEN Fallar("ZeroDivisionError") /\ UNCHANGED <<viol5, valido>>
           ELSE pc' = "pol" /\ UNCHANGED <<viol5, valido, error>>
    /\ UNCHANGED <<entradas, viol1, viol2, viol3, viol4, q_final, costo_total,
                   mediana, polarizacion, veredicto>>
    /\ UNCHANGED componentes

\* Lines 133-154.
CalcularPolarizacion ==
    /\ pc = "pol"
    /\ mediana' = BuscarMediana(q_final, 1, 0)
    /\ polarizacion' = Polarizacion(q_final, BuscarMediana(q_final, 1, 0))
    /\ pc' = "resumen"
    /\ UNCHANGED <<entradas, viol1, viol2, viol3, viol4, viol5, valido, q_final,
                   costo_total, movimientos_totales, veredicto, error>>
    /\ UNCHANGED componentes

\* Lines 156-186: the verdict, the listing of the moves and the return.
Resumen ==
    /\ pc = "resumen"
    /\ veredicto' = IF valido THEN "VALIDA" ELSE "INVALIDA"
    /\ pc' = "fin"
    /\ UNCHANGED <<entradas, locales, error>>
    /\ UNCHANGED componentes

\* ------------------------------------------------------------- inputs
\* The cells (k, i, j) of three m x m matrices.
Celdas(mm) == Niveles \X (1..mm) \X (1..mm)

\* The m x m matrices that hold a1 at cell c1, a2 at cell c2, 0 elsewhere.
Matrices(mm, c1, a1, c2, a2) ==
    [k \in Niveles |-> [i \in 1..mm |-> [j \in 1..mm |->
        IF <<k, i, j>> = c1 THEN a1
        ELSE IF <<k, i, j>> = c2 THEN a2 ELSE 0]]]

\* Well-formed move matrices: non-negative, m x m, at most two non-zero
\* entries anywhere (diagonal included).
MatricesDosMovimientos(mm) ==
    {Matrices(mm, c[1], a[1], c[2], a[2]) :
        c \in Celdas(mm) \X Celdas(mm), a \in Cantidades \X Cantidades}

\* Well-formed move matrices whose non-zero entries lie in one row of one tier.
MatricesUnaFila(mm) ==
    {Matrices(mm, <<ki[1], ki[2], j[1]>>, a[1], <<ki[1], ki[2], j[2]>>, a[2]) :
        ki \in Niveles \X (1..mm), j \in (1..mm) \X (1..mm),
        a \in Cantidades \X Cantidades}

Uniforme(mm, b) == [i \in 1..mm |-> [k \in Niveles |-> b]]

\* Availability matrices: b everywhere but for a in one cell.
Disponibilidades(mm) ==
    {[Uniforme(mm, ba[1]) EXCEPT ![ik[1]][ik[2]] = ba[2]] :
        ik \in (1..mm) \X Niveles, ba \in Cantidades \X Cantidades}

\* Opinion values, ascending, in thousandths: 0.297, 0.673, 0.809, ...
ValoresEjemplo == <<297, 673, 809, 901, 950, 990>>

\* Budgets, in hundredths: none, 0.99, 1.00 and ample.
Presupuestos == {0, 99, 100, 100000}

PorDefecto(mm) ==
    [p |-> [i \in 1..mm |-> MaxPersonas], s |-> Uniforme(mm, MaxPersonas),
     v |-> [i \in 1..mm |-> 100 * i], n |-> mm * MaxPersonas,
     ct_max |-> 100000, maxMovs |-> 100000]

\* Instances that differ in the availability matrix.
InstanciasS(mm) == {[PorDefecto(mm) EXCEPT !.s = ss] : ss \in Disponibilidades(mm)}

\* Initial distributions: the same count everywhere, or counts that cycle
\* through 0..MaxPersonas along the opinions.
Poblaciones(mm) ==
    {[i \in 1..mm |-> b] : b \in Cantidades}
    \cup {[i \in 1..mm |-> (i + d) % (MaxPersonas + 1)] : d \in 0..MaxPersonas}

\* Instances that differ in p, with n = sum(p) and the values of the second
\* kind, or with n one more than sum(p).
InstanciasP(mm) ==
    {[PorDefecto(mm) EXCEPT !.p = pp, !.n = SumSeq(pp),
                            !.v = [i \in 1..mm |-> ValoresEjemplo[i]]] :
        pp \in Poblaciones(mm)}
    \cup {[PorDefecto(mm) EXCEPT !.p = pp, !.n = SumSeq(pp) + 1] :
        pp \in Poblaciones(mm)}

\* Instances that differ in one of the two budgets.
InstanciasB(mm) ==
    {[PorDefecto(mm) EXCEPT !.ct_max = c] : c \in Presupuestos}
    \cup {[PorDefecto(mm) EXCEPT !.maxMovs = c] : c \in Presupuestos}

\* The state before the first section runs.
Comenzar(mm, xx, inst) ==
    /\ m = mm
    /\ x = xx
    /\ p = inst.p
    /\ s = inst.s
    /\ v = inst.v
    /\ n = inst.n
    /\ ct_max = inst.ct_max
    /\ maxMovs = inst.maxMovs
    /\ pc = "convertir"
    /\ viol1 = {}
    /\ viol2 = {}
    /\ viol3 = FALSE
    /\ viol4 = FALSE
    /\ viol5 = FALSE
    /\ valido = TRUE
    /\ q_final = <<>>
    /\ costo_total = 0
    /\ movimientos_totales = 0
    /\ mediana = 0
    /\ polarizacion = 0
    /\ veredicto = "ninguno"
    /\ error = [tipo |-> "ninguno", en |-> "ninguno"]
    /\ parser = Inactivo
    /\ conversor = Inactivo
    /\ guardado = Inactivo
    /\ worker = Inactivo
    /\ gui = Inactivo

\* Well-formed calls (three m x m non-negative matrices, p and v of length m,
\* s of shape m x 3, non-negative budgets) come in three families.
\* Moves out of one row, against every availability matrix.
InitDisponibles ==
    \E mm \in 1..MaxM :
        \E xx \in MatricesUnaFila(mm), inst \in InstanciasS(mm) :
            Comenzar(mm, xx, inst)

\* Any two moves, against every initial distribution.
InitPoblacion ==
    \E mm \in 1..MaxM :
        \E xx \in MatricesDosMovimientos(mm), inst \in InstanciasP(mm) :
            Comenzar(mm, xx, inst)

\* Any two moves, against every budget.
InitPresupuestos ==
    \E mm \in 1..MaxM :
        \E xx \in MatricesDosMovimientos(mm), inst \in InstanciasB(mm) :
            Comenzar(mm, xx, inst)

Init == InitDisponibles \/ InitPoblacion \/ InitPresupuestos

\* ---------------------------------------------------- malformed matrices
\* Matrix M cut or padded to filas x cols, new entries holding relleno.
Redimensionar(M, filas, cols, relleno) ==
    [r \in 1..filas |-> [c \in 1..cols |->
        IF r <= Len(M) /\ c <= Len(M[r]) THEN M[r][c] ELSE relleno]]

\* Matrix M with its first row one entry shorter, when there is a second row.
Recortar(M) ==
    IF Len(M) >= 2 /\ Len(M[1]) >= 1
      THEN [M EXCEPT ![1] = SubSeq(@, 1, Len(@) - 1)]
      ELSE M

\* Calls whose matrices need not match m: one tier's matrix (what the parser
\* gave for it) is empty, has other than m rows or other than m columns, or
\* has rows of different lengths.  The instance itself is well formed.
InitForma ==
    \E mm \in 1..MaxM :
      \E c \in Celdas(mm), a \in Cantidades, kd \in Niveles,
         filas \in 0..(mm + 1), cols \in 0..(mm + 1), relleno \in {0, 1},
         desigual \in BOOLEAN :
        LET base == Matrices(mm, c, a, c, a)
            forma == Redimensionar(base[kd], filas, cols, relleno)
        IN  Comenzar(mm,
                     [base EXCEPT ![kd] = IF desigual THEN Recortar(forma) ELSE forma],
                     PorDefecto(mm))

Next ==
    \/ Convertir
    \/ Restriccion1
    \/ Restriccion2
    \/ Restriccion3
    \/ Restriccion4
    \/ Restriccion5
    \/ CalcularPolarizacion
    \/ Resumen

Spec == Init /\ [][Next]_vars

\* The three families of well-formed calls, each alone.
SpecDisponibles == InitDisponibles /\ [][Next]_vars
SpecPoblacion == InitPoblacion /\ [][Next]_vars
SpecPresupuestos == InitPresupuestos /\ [][Next]_vars

\* verificar_solucion called with matrices of any shape.
SpecForma == InitForma /\ [][Next]_vars

\* ======================================================================
\* Properties of verificar_solucion
\* ======================================================================
RECURSIVE SumaHasta(_, _)
\* f[1] + ... + f[k].
SumaHasta(f, k) == IF k = 0 THEN 0 ELSE SumaHasta(f, k - 1) + f[k]

\* The sections of verificar_solucion, in the order they run.
Lugar ==
    [convertir |-> 1, r1 |-> 2, r2 |-> 3, r3 |-> 4, r4 |-> 5, r5 |-> 6,
     pol |-> 7, resumen |-> 8, fin |-> 9]

\* Section sec has run to its end in this call.
Pasada(sec) == Lugar[sec] < Lugar[IF pc = "error" THEN error.en ELSE pc]

\* The call is over: it returned its report or raised.
Terminada == pc \in {"fin", "error"}

\* A check has appended a violation to the report.
FalloRegistrado ==
    viol1 # {} \/ viol2 # {} \/ viol3 \/ viol4 \/ viol5

\* All five checks ran and none appended a violation.
CincoPasaron == Pasada("r5") /\ ~FalloRegistrado

Opiniones == 1..m

\* The statement's quantities, from the inputs alone.
EspSumaFila(k, i) == SumaHasta([j \in Opiniones |-> x[k][i][j]], m)
EspSumaColumna(k, i) == SumaHasta([j \in Opiniones |-> x[k][j][i]], m)
EspSalida(i) == SumaHasta([k \in Niveles |-> EspSumaFila(k, i)], NumNiveles)
EspEntrada(i) == SumaHasta([k \in Niveles |-> EspSumaColumna(k, i)], NumNiveles)
EspQ == [i \in Opiniones |-> p[i] - EspSalida(i) + EspEntrada(i)]
EspCostoNivel(k) ==
    SumaHasta([i \in Opiniones |-> SumaHasta([j \in Opiniones |->
        x[k][i][j] * Abs(i - j) * <<100, 150, 200>>[k]], m)], m)
EspCosto == SumaHasta([k \in Niveles |-> EspCostoNivel(k)], NumNiveles)
EspMovimientosNivel(k) ==
    SumaHasta([i \in Opiniones |-> SumaHasta([j \in Opiniones |->
        x[k][i][j] * Abs(i - j)], m)], m)
EspMovimientos == SumaHasta([k \in Niveles |-> EspMovimientosNivel(k)], NumNiveles)
EspAlcanzan(q) == {i \in Opiniones : SumaHasta(q, i) >= (n + 1) \div 2}
EspMediana(q) ==
    LET alcanzan == EspAlcanzan(q)
    IN  IF alcanzan = {} THEN v[1]
        ELSE v[CHOOSE i \in alcanzan : \A b \in alcanzan : i <= b]
EspPolarizacion(q, med) ==
    SumaHasta([i \in Opiniones |-> q[i] * Abs(v[i] - med)], m)
HayDiagonal == \E k \in Niveles, i \in Opiniones : x[k][i][i] > 0
TodoCeros == \A k \in Niveles, i \in Opiniones, j \in Opiniones : x[k][i][j] = 0
BienFormadas ==
    \A k \in Niveles : Len(x[k]) = m /\ \A r \in 1..Len(x[k]) : Len(x[k][r]) = m

\* C1: when the call is over, the verdict is VALIDA if and only if all five
\* checks passed, and a violation appended by any one check gives the
\* verdict INVALIDA.
C1_Veredicto ==
    Terminada =>
        /\ (veredicto = "VALIDA") <=> CincoPasaron
        /\ FalloRegistrado => veredicto = "INVALIDA"

\* C2: once constraint 1 has run, a conservation violation is reported for
\* (k, i) exactly when the sum over j of x[k][i][j] is greater than s[i][k].
C2_Conservacion ==
    Pasada("r1") =>
        \A k \in Niveles, i \in Opiniones :
            (<<k, i>> \in viol1) <=> (EspSumaFila(k, i) > s[i][k])

\* C2 witness: constraint 1 has reported exactly one pair, whose row moves
\* one person more than available in two entries, and let pass a pair whose
\* row moves exactly the people available.
C2_Testigo ==
    /\ Pasada("r1")
    /\ \E a \in viol1 :
          /\ viol1 = {a}
          /\ EspSumaFila(a[1], a[2]) = s[a[2]][a[1]] + 1
          /\ \E j \in Opiniones : 0 < x[a[1]][a[2]][j] /\ x[a[1]][a[2]][j] <= s[a[2]][a[1]]
    /\ \E k \in Niveles, i \in Opiniones :
          <<k, i>> \notin viol1 /\ EspSumaFila(k, i) = s[i][k]

\* C3: when the call is over and some diagonal entry is positive, a self-move
\* violation is reported and the verdict is INVALIDA, whatever the other
\* inputs are.
C3_AutoMovimiento ==
    (Terminada /\ HayDiagonal) => (viol2 # {} /\ veredicto = "INVALIDA")

\* C4: once constraint 3 has run, q[i] = p[i] - outflow of i + inflow to i
\* over all tiers, and the check passes exactly when the sum of q is n.
C4_DistribucionFinal ==
    Pasada("r3") =>
        /\ q_final = EspQ
        /\ (~viol3) <=> (SumaHasta(EspQ, m) = n)

\* C4 witness: constraint 3 has passed on a distribution that moves in tiers
\* 1 and 3 changed.
C4_Testigo ==
    /\ Pasada("r3")
    /\ ~viol3
    /\ q_final # p
    /\ \E i \in Opiniones, j \in Opiniones : i # j /\ x[1][i][j] > 0
    /\ \E i \in Opiniones, j \in Opiniones : i # j /\ x[3][i][j] > 0

\* C5: once constraint 4 has run, the total cost is the sum over the tiers k
\* and the pairs i # j of x[k][i][j] * |i - j| * tierCost[k], and a cost
\* violation is reported exactly when it is greater than ct_max + 0.01.
C5_Costo ==
    Pasada("r4") =>
        /\ costo_total = EspCosto
        /\ viol4 <=> (EspCosto > ct_max + 1)

\* C5 witness: two people moved over distance 2 at tier 2 (cost 6.00) and one
\* over distance 1 at tier 3 (cost 2.00) exceed a budget of 1.00.
C5_Testigo ==
    /\ Pasada("r4")
    /\ m >= 3
    /\ x[2][1][3] = 2
    /\ x[3][2][1] = 1
    /\ costo_total = 800
    /\ ct_max = 100
    /\ viol4

\* C6: once constraint 5 has run, the movement count is the sum over the
\* tiers k and the pairs i # j of x[k][i][j] * |i - j|, and a movement
\* violation is reported exactly when it is greater than maxMovs + 0.01.
C6_Movimientos ==
    Pasada("r5") =>
        /\ movimientos_totales = EspMovimientos
        /\ viol5 <=> (EspMovimientos * 100 > maxMovs + 1)

\* C6 witness: two people moved over distance 2 and one over distance 1 are
\* 5 movements, more than a budget of 1.00.
C6_Testigo ==
    /\ Pasada("r5")
    /\ m >= 3
    /\ x[1][3][1] = 2
    /\ x[2][1][2] = 1
    /\ movimientos_totales = 5
    /\ maxMovs = 100
    /\ viol5

\* C7: once the polarization has been computed, the median is v[i] for the
\* smallest i whose prefix sum of q reaches (n + 1) // 2 (v[0] when none
\* does), and the polarization is the sum over i of q[i] * |v[i] - med|.
C7_Polarizacion ==
    Pasada("pol") =>
        LET q == EspQ
            med == EspMediana(q)
        IN  /\ mediana = med
            /\ polarizacion = EspPolarizacion(q, med)

\* C7 witness: the median is the value of an opinion other than the first,
\* after moves changed the distribution, and the polarization is positive.
C7_Testigo ==
    /\ Pasada("pol")
    /\ q_final # p
    /\ EspAlcanzan(EspQ) # {}
    /\ mediana # v[1]
    /\ polarizacion > 0

\* C8: a call with well-formed inputs and non-negative budgets (0 included)
\* raises no exception.
C8_SinExcepcion == pc # "error"

\* C9: a call whose matrices do not match m (an empty matrix, other than m
\* rows, other than m columns) ends in an error, not in a report.
C9_FormaRechazada == (Terminada /\ ~BienFormadas) => pc = "error"

\* C10: with all-zero matrices and sum(p) = n the call returns a report with
\* final distribution p, cost 0, 0 movements, no violation and verdict VALIDA.
C10_SinMovimientos ==
    (Terminada /\ TodoCeros /\ SumSeq(p) = n) =>
        /\ pc = "fin"
        /\ q_final = p
        /\ costo_total = 0
        /\ movimientos_totales = 0
        /\ ~FalloRegistrado
        /\ veredicto = "VALIDA"

\* The move matrices hold no negative entry.
NoNegativas ==
    \A k \in Niveles : \A i \in 1..Len(x[k]) : \A j \in 1..Len(x[k][i]) :
        x[k][i][j] >= 0

\* C23: when the verdict is VALIDA for an instance with sum(p) = n and
\* non-negative m x m matrices, every recomputed final count q[i] is >= 0.
C23_SinNegativos ==
    (veredicto = "VALIDA" /\ SumaHasta(p, m) = n /\ BienFormadas /\ NoNegativas)
        => \A i \in Opiniones : q_final[i] >= 0

\* C24: once constraint 3 has run on m x m matrices, it passed if and only
\* if sum(p) = n, whatever the matrices hold.
C24_Balance ==
    (Pasada("r3") /\ BienFormadas) => ((~viol3) <=> (SumaHasta(p, m) = n))

\* C24 witness: constraint 3 has passed on a call with sum(p) = n whose
\* matrices move people between opinions in two different tiers, so that
\* the final distribution is not the initial one.
C24_Testigo ==
    /\ Pasada("r3")
    /\ BienFormadas
    /\ ~viol3
    /\ SumaHasta(p, m) = n
    /\ q_final # p
    /\ \E i \in Opiniones, j \in Opiniones : i # j /\ x[1][i][j] > 0
    /\ \E i \in Opiniones, j \in Opiniones : i # j /\ x[2][i][j] > 0

\* ======================================================================
\* utilities/parser.py: parse_minizinc_output
\* ======================================================================
\* The solver output is a sequence of lines.  A line is a record: its kind
\* `tipo`, the tier `k` or opinion number it names, the number `num` it
\* carries and, for a matrix row, the integers `fila` of the row.
\*   "pol_etq"     Polarizacion final: <num>
\*   "pol_etq_mal" Polarizacion final: n/a        (no number after the label)
\*   "pol_asg"     polarizacion = <num>;
\*   "cab_dist"    Distribucion final de personas por opinion:
\*   "opinion"     Opinion <k>: <num> personas
\*   "mediana"     Mediana: ...
\*   "costo"       Costo total: ...
\*   "movs"        Movimientos totales: ...
\*   "etq_matriz"  === MATRIZ DE MOVIMIENTOS (Resistencia ..., k=<k>) ===
\*   "fila"        integers separated by commas or blanks, brackets allowed
\*   "fila_mal"    a row with a token that is not an integer
\*   "vacia"       the empty line
\*   "sep"         ==========
\*   "otra"        any other text
Linea(tipo, k, num, fila) == [tipo |-> tipo, k |-> k, num |-> num, fila |-> fila]
Simple(tipo) == Linea(tipo, 0, 0, <<>>)

\* Largest number of lines of a free text.
MaxLineas == 4

\* Line 33: the string "Valor no encontrado"; every number of a text is
\* written with digits only, so no number is negative.
ValorNoEncontrado == -1

\* The smallest index of a set of indexes, 0 when the set is empty:
\* re.search returns the leftmost match or None.
PrimerIndice(S) == IF S = {} THEN 0 ELSE CHOOSE i \in S : \A j \in S : i <= j

\* Lines 35-44: the labelled form is searched in the whole text first, the
\* assignment form only when the labelled form matched nowhere.
BuscarPolarizacionMut(T) ==
    LET etq == PrimerIndice({i \in DOMAIN T : T[i].tipo = "pol_etq"})
        asg == PrimerIndice({i \in DOMAIN T : T[i].tipo = "pol_asg"})
    IN  IF asg # 0 THEN T[asg].num
        ELSE IF etq # 0 THEN T[etq].num
        ELSE ValorNoEncontrado
BuscarPolarizacion(T) ==
    LET etq == PrimerIndice({i \in DOMAIN T : T[i].tipo = "pol_etq"})
        asg == PrimerIndice({i \in DOMAIN T : T[i].tipo = "pol_asg"})
    IN  IF etq # 0 THEN T[etq].num
        ELSE IF asg # 0 THEN T[asg].num
        ELSE ValorNoEncontrado

\* Line 51, the alternation (?:Mediana:|Costo total|Movimientos totales).
Terminadores == {"mediana", "costo", "movs"}

\* Lines 50-54.  After the header, \s*\n skips the empty lines and the group
\* (.+?) starts at the first line that is not empty.  The group takes at
\* least one character, so a terminator is looked for from the second
\* character of that line on: a terminator line that comes first after the
\* header is inside the block, which then runs up to the following
\* terminator.  Without such a terminator nothing matches.  The result is
\* <<first line of the block, line of the terminator>>, or <<0, 0>>.
BloqueDistribucion(T) ==
    LET cab == PrimerIndice({i \in DOMAIN T : T[i].tipo = "cab_dist"})
        ini == PrimerIndice({i \in DOMAIN T : i > cab /\ T[i].tipo # "vacia"})
        fin == PrimerIndice({i \in DOMAIN T : i > ini /\ T[i].tipo \in Terminadores})
    IN  IF cab = 0 \/ ini = 0 \/ fin = 0 THEN <<0, 0>> ELSE <<ini, fin>>

EsOpinion(l) == l.tipo = "opinion"

\* Lines 56-64: the counts of the Opinion lines of the block, in order of
\* appearance; int() of a run of digits never fails.
ExtraerDistribucion(T) ==
    LET b == BloqueDistribucion(T)
        ops == SelectSeq(SubSeq(T, b[1], b[2] - 1), EsOpinion)
    IN  IF b[1] = 0 THEN <<>> ELSE [i \in 1..Len(ops) |-> ops[i].num]

\* Lines 67-77: the first label of tier k.
PrimeraEtiquetaMut(T, k) ==
    PrimerIndice({i \in DOMAIN T : T[i].tipo = "etq_matriz"})
PrimeraEtiqueta(T, k) ==
    PrimerIndice({i \in DOMAIN T : T[i].tipo = "etq_matriz" /\ T[i].k = k})

\* === occurs in a label of any tier and in a separator.
TieneMarca(l) == l.tipo \in {"etq_matriz", "sep"}

\* Lines 68-77.  The block of tier k starts at the first line after the
\* label that is not empty and ends before the first empty line, the first
\* line with ===, or the end of the text (the label of the next tier has ===
\* too).  When the first line has === itself, the block is a piece of that
\* line, which is not a row.  The result is the lines of the rows.
BloqueMatriz(T, k) ==
    LET etq == PrimeraEtiqueta(T, k)
        ini == PrimerIndice({i \in DOMAIN T : i > etq /\ T[i].tipo # "vacia"})
        corte == PrimerIndice({i \in DOMAIN T :
                     i > ini /\ (T[i].tipo = "vacia" \/ TieneMarca(T[i]))})
        fin == IF corte = 0 THEN Len(T) ELSE corte - 1
    IN  IF etq = 0 \/ ini = 0 THEN <<>>
        ELSE IF TieneMarca(T[ini]) THEN <<Simple("fila_mal")>>
        ELSE SubSeq(T, ini, fin)

\* Line 91: int(e) of every token; only a "fila" line has integer tokens.
LanzaValueError(l) == l.tipo # "fila"

\* Line 92: except ValueError.
AtrapadasEnFilaMut == {}
AtrapadasEnFila == {"ValueError"}

EsFila(l) == ~LanzaValueError(l)

\* Lines 81-95: the rows that converted, in order; the others are skipped.
MatrizDeNivel(T, k) ==
    LET filas == SelectSeq(BloqueMatriz(T, k), EsFila)
    IN  [i \in 1..Len(filas) |-> filas[i].fila]

\* The exceptions raised while the rows of tier k are converted.
LanzadasEnNivel(T, k) ==
    IF \E i \in DOMAIN BloqueMatriz(T, k) : LanzaValueError(BloqueMatriz(T, k)[i])
      THEN {"ValueError"} ELSE {}

\* ------------------------------------------------------------- actions
\* parse_minizinc_output(output_text) is called.
LlamarParser(T) ==
    parser = [pc |-> "pol", output_text |-> T, polarizacion |-> ValorNoEncontrado,
              q_final |-> <<>>, x_matrices |-> <<>>, exc |-> "ninguna"]

\* Lines 32-44.
ExtraerPolarizacion ==
    /\ parser.pc = "pol"
    /\ parser' = [parser EXCEPT !.polarizacion = BuscarPolarizacion(parser.output_text),
                                !.pc = "dist"]
    /\ UNCHANGED <<verificador, conversor, guardado, worker, gui>>

\* Lines 46-64.
ExtraerQFinal ==
    /\ parser.pc = "dist"
    /\ parser' = [parser EXCEPT !.q_final = ExtraerDistribucion(parser.output_text),
                                !.pc = "mat"]
    /\ UNCHANGED <<verificador, conversor, guardado, worker, gui>>

\* Lines 66-97, one iteration of `for k in range(1, 4)`: tier
\* k = len(x_matrices) + 1.  An exception that the handler of line 92 does
\* not catch leaves the function.
ExtraerMatriz ==
    /\ parser.pc = "mat"
    /\ LET k == Len(parser.x_matrices) + 1
           T == parser.output_text
       IN  IF LanzadasEnNivel(T, k) \subseteq AtrapadasEnFila
             THEN parser' = [parser EXCEPT
                     !.x_matrices = Append(@, MatrizDeNivel(T, k)),
                     !.pc = IF k = NumNiveles THEN "ret" ELSE "mat"]
             ELSE parser' = [parser EXCEPT !.pc = "error", !.exc = "ValueError"]
    /\ UNCHANGED <<verificador, conversor, guardado, worker, gui>>

\* Line 99.
RetornarParser ==
    /\ parser.pc = "ret"
    /\ parser' = [parser EXCEPT !.pc = "fin"]
    /\ UNCHANGED <<verificador, conversor, guardado, worker, gui>>

NextParser ==
    \/ ExtraerPolarizacion
    \/ ExtraerQFinal
    \/ ExtraerMatriz
    \/ RetornarParser

\* -------------------------------------------------------------- inputs
\* verificar_solucion is not running.
VerificadorInactivo ==
    /\ m = 0 /\ x = <<>> /\ p = <<>> /\ s = <<>> /\ v = <<>> /\ n = 0
    /\ ct_max = 0 /\ maxMovs = 0
    /\ pc = "inactivo"
    /\ viol1 = {} /\ viol2 = {}
    /\ viol3 = FALSE /\ viol4 = FALSE /\ viol5 = FALSE
    /\ valido = TRUE
    /\ q_final = <<>>
    /\ costo_total = 0 /\ movimientos_totales = 0
    /\ mediana = 0 /\ polarizacion = 0
    /\ veredicto = "ninguno"
    /\ error = [tipo |-> "ninguno", en |-> "ninguno"]

\* The texts of at most MaxLineas lines over a set of lines.
Textos(lineas) == UNION {[1..len -> lineas] : len \in 0..MaxLineas}

\* Lines about the polarization.
LineasPol ==
    {Linea("pol_etq", 0, 1, <<>>), Linea("pol_etq", 0, 2, <<>>),
     Simple("pol_etq_mal"),
     Linea("pol_asg", 0, 2, <<>>), Linea("pol_asg", 0, 3, <<>>),
     Simple("otra")}

\* Lines about the final distribution.
LineasDist ==
    {Simple("cab_dist"),
     Linea("opinion", 1, 1, <<>>), Linea("opinion", 2, 2, <<>>),
     Simple("mediana"), Simple("costo"), Simple("movs"),
     Simple("vacia"), Simple("otra")}

Etiqueta(k) == Linea("etq_matriz", k, 0, <<>>)
Fila(f) == Linea("fila", 0, 0, f)

\* Lines about the move matrices.
LineasMat ==
    {Etiqueta(k) : k \in Niveles}
    \cup {Fila(<<0, 1>>), Fila(<<2, 0>>), Simple("fila_mal"),
          Simple("vacia"), Simple("sep")}

\* What may follow the label of a block.
Cuerpos ==
    {<<>>,
     <<Fila(<<0, 1>>)>>,
     <<Fila(<<0, 1>>), Fila(<<2, 0>>)>>,
     <<Fila(<<0, 1>>), Simple("fila_mal"), Fila(<<2, 0>>)>>,
     <<Fila(<<0, 1>>), Simple("vacia"), Fila(<<2, 0>>)>>,
     <<Simple("vacia"), Fila(<<2, 0>>), Simple("vacia")>>,
     <<Simple("fila_mal")>>}

\* The block of tier k, or nothing.
Bloques(k) == {<<>>} \cup {<<Etiqueta(k)>> \o c : c \in Cuerpos}

\* The texts the solver model prints: a heading, then the blocks of the
\* tiers in order, any of them possibly missing.
TextosPorBloques ==
    {<<Simple("otra")>> \o b1 \o b2 \o b3 :
        b1 \in Bloques(1), b2 \in Bloques(2), b3 \in Bloques(3)}

InitParserCon(textos) ==
    /\ VerificadorInactivo
    /\ conversor = Inactivo /\ guardado = Inactivo /\ worker = Inactivo
    /\ gui = Inactivo
    /\ \E T \in textos : LlamarParser(T)

InitParserPol == InitParserCon(Textos(LineasPol))
InitParserDist == InitParserCon(Textos(LineasDist))
InitParserMat == InitParserCon(Textos(LineasMat) \cup TextosPorBloques)
InitParser == InitParserPol \/ InitParserDist \/ InitParserMat

SpecParserPol == InitParserPol /\ [][NextParser]_vars
SpecParserDist == InitParserDist /\ [][NextParser]_vars
SpecParserMat == InitParserMat /\ [][NextParser]_vars
SpecParser == InitParser /\ [][NextParser]_vars

\* ----------------------------------------------------------------------
\* Claims about parse_minizinc_output
\* ----------------------------------------------------------------------
ParserRetorno == parser.pc = "fin"

IndicesDe(T, tipos) == {i \in DOMAIN T : T[i].tipo \in tipos}
EsPrimero(i, S) == i \in S /\ \A j \in S : i <= j

\* C11: the polarization returned is the number of the first labelled
\* occurrence when there is one, whatever assignments the text has; else the
\* number of the first assignment; else the sentinel.
C11_Polarizacion ==
    ParserRetorno =>
        LET T == parser.output_text
            etqs == IndicesDe(T, {"pol_etq"})
            asgs == IndicesDe(T, {"pol_asg"})
        IN  /\ \A i \in etqs : EsPrimero(i, etqs) => parser.polarizacion = T[i].num
            /\ etqs = {} =>
                 \A i \in asgs : EsPrimero(i, asgs) => parser.polarizacion = T[i].num
            /\ etqs = {} /\ asgs = {} => parser.polarizacion = ValorNoEncontrado
            /\ parser.exc = "ninguna"

\* An assignment comes first, then two labelled occurrences with different
\* numbers; the first label's number is returned.
C11_Testigo ==
    /\ ParserRetorno
    /\ Len(parser.output_text) = 3
    /\ parser.output_text[1] = Linea("pol_asg", 0, 3, <<>>)
    /\ parser.output_text[2] = Linea("pol_etq", 0, 2, <<>>)
    /\ parser.output_text[3] = Linea("pol_etq", 0, 1, <<>>)
    /\ parser.polarizacion = 2

\* The counts of the Opinion lines from line a to line b of T, in order.
EspCuentas(T, a, b) ==
    LET ops == SelectSeq(SubSeq(T, a, b), EsOpinion)
    IN  [i \in 1..Len(ops) |-> ops[i].num]

\* C12: the distribution returned is made of the counts of the Opinion lines
\* between the first header and the first terminator after it, in order of
\* appearance, and is empty when there is no header.
C12_Distribucion ==
    ParserRetorno =>
        LET T == parser.output_text
            cabs == IndicesDe(T, {"cab_dist"})
        IN  /\ cabs = {} => parser.q_final = <<>>
            /\ \A c \in cabs : EsPrimero(c, cabs) =>
                 LET ters == {i \in IndicesDe(T, Terminadores) : i > c}
                 IN  \A f \in ters : EsPrimero(f, ters) =>
                         parser.q_final = EspCuentas(T, c + 1, f - 1)

\* The tiers that have a label in T.
NivelesPresentes(T) == {T[i].k : i \in IndicesDe(T, {"etq_matriz"})}

\* A block for tier k as the solver model prints it.
BloqueEjemplo(k) == <<Etiqueta(k), Fila(<<1, 1>>), Fila(<<1, 1>>)>>

\* C13: three matrices are returned, in tier order; a tier without a label
\* has the empty matrix, and every other tier has the matrix it has in the
\* text with a block for the missing tier put at its start or at its end.
C13_TresMatrices ==
    ParserRetorno =>
        LET T == parser.output_text
        IN  /\ Len(parser.x_matrices) = NumNiveles
            /\ \A k \in Niveles \ NivelesPresentes(T) :
                 /\ parser.x_matrices[k] = <<>>
                 /\ \A j \in Niveles \ {k} :
                      /\ parser.x_matrices[j] = MatrizDeNivel(T \o BloqueEjemplo(k), j)
                      /\ parser.x_matrices[j] = MatrizDeNivel(BloqueEjemplo(k) \o T, j)

\* The block of tier 2 is missing; tiers 1 and 3 have their rows.
C13_Testigo ==
    /\ ParserRetorno
    /\ NivelesPresentes(parser.output_text) = {1, 3}
    /\ parser.x_matrices = << <<<<0, 1>>, <<2, 0>>>>, <<>>, <<<<0, 1>>>> >>

\* C14: the call returns a triple and raises nothing: a polarization that is
\* a number of the text or the sentinel, a list, and three lists of rows.
C14_SinExcepcion ==
    /\ parser.pc # "error"
    /\ parser.exc = "ninguna"
    /\ ParserRetorno =>
         /\ parser.polarizacion = ValorNoEncontrado
              <=> IndicesDe(parser.output_text, {"pol_etq", "pol_asg"}) = {}
         /\ IndicesDe(parser.output_text, {"cab_dist"}) = {} => parser.q_final = <<>>
         /\ Len(parser.x_matrices) = NumNiveles
         /\ \A k \in Niveles \ NivelesPresentes(parser.output_text) :
              parser.x_matrices[k] = <<>>

\* The text has no polarization and no distribution header, the block of
\* tier 1 has a row that is not made of integers between two rows that are,
\* and the other tiers have no block; the call returned.
C14_Testigo ==
    /\ ParserRetorno
    /\ LanzadasEnNivel(parser.output_text, 1) # {}
    /\ NivelesPresentes(parser.output_text) = {1}
    /\ parser.polarizacion = ValorNoEncontrado
    /\ parser.q_final = <<>>
    /\ parser.x_matrices = << <<<<0, 1>>, <<2, 0>>>>, <<>>, <<>> >>

\* The rows of the lines a..b of T that are made of integers, in order.
EspFilas(T, a, b) ==
    LET filas == SelectSeq(SubSeq(T, a, b), EsFila)
    IN  [i \in 1..Len(filas) |-> filas[i].fila]

\* C22: the matrix returned for a tier that has a label is made of the rows
\* of the lines between the first label of the tier and the first
\* terminator after it (an empty line, a line with ===, the end of the
\* text), in order, the lines that are not made of integers left out.
C22_FilasDelBloque ==
    ParserRetorno =>
        LET T == parser.output_text
        IN  \A k \in NivelesPresentes(T) :
              LET etqs == {i \in IndicesDe(T, {"etq_matriz"}) : T[i].k = k}
                  etq == CHOOSE i \in etqs : EsPrimero(i, etqs)
                  ters == {i \in DOMAIN T :
                              i > etq /\ (T[i].tipo = "vacia" \/ TieneMarca(T[i]))}
                  fin == IF ters = {} THEN Len(T)
                         ELSE (CHOOSE i \in ters : EsPrimero(i, ters)) - 1
              IN  parser.x_matrices[k] = EspFilas(T, etq + 1, fin)

\* ======================================================================
\* convertir_individual.py: convert_txt_to_dzn
\* main.py: MinPolGUI._convertir_txt_a_dzn
\* utilities/parser.py: parse_dzn_input
\* ======================================================================
\* A text is a sequence of tokens.  A token is a record: `c` is "num" for a
\* numeral and the characters themselves for anything else; a run of spaces
\* is one token " " whose `val` is the number of spaces.  A numeral has its
\* value `val` and its form: "entero" is an integer written canonically
\* (3), "ceros" an integer written otherwise (03, +3), "decimal" a numeral
\* with a decimal point, whose val is in thousandths (0.297 is 297).
\* The input file is a sequence of lines, each a text without its newline.
Tok(c) == [c |-> c, val |-> 0, forma |-> "simbolo"]
Esp(k) == [c |-> " ", val |-> k, forma |-> "simbolo"]
Num(val, forma) == [c |-> "num", val |-> val, forma |-> forma]

\* str.strip(): the text without its leading and trailing whitespace.
EsEspacio(t) == t.c \in {" ", "\n"}
Strip(l) ==
    LET llenos == {i \in DOMAIN l : ~EsEspacio(l[i])}
    IN  IF llenos = {} THEN <<>>
        ELSE SubSeq(l, PrimerIndice(llenos),
                    CHOOSE i \in llenos : \A j \in llenos : j <= i)

\* str.split(c): the pieces of l between the tokens c.
RECURSIVE Split(_, _)
Split(l, c) ==
    LET i == PrimerIndice({j \in DOMAIN l : l[j].c = c})
    IN  IF i = 0 THEN <<l>>
        ELSE <<SubSeq(l, 1, i - 1)>> \o Split(SubSeq(l, i + 1, Len(l)), c)

\* str.replace(',', ', ').
RECURSIVE Reemplazar(_)
Reemplazar(l) ==
    IF l = <<>> THEN <<>>
    ELSE (IF Head(l).c = "," THEN <<Head(l), Esp(1)>> ELSE <<Head(l)>>)
         \o Reemplazar(Tail(l))

\* sep.join(partes).
RECURSIVE Join(_, _)
Join(partes, sep) ==
    IF partes = <<>> THEN <<>>
    ELSE IF Len(partes) = 1 THEN partes[1]
    ELSE partes[1] \o sep \o Join(Tail(partes), sep)

\* int(text) succeeds on an integer numeral, surrounded by whitespace or not.
EsEntero(l) ==
    /\ Len(Strip(l)) = 1
    /\ Strip(l)[1].c = "num"
    /\ Strip(l)[1].forma \in {"entero", "ceros"}
Int_(l) == Strip(l)[1].val

\* float(text) succeeds on any numeral; the value is in thousandths.
EsNumero(l) == Len(Strip(l)) = 1 /\ Strip(l)[1].c = "num"
FloatMut_(l) == Strip(l)[1].val
Float_(l) ==
    IF Strip(l)[1].forma = "decimal" THEN Strip(l)[1].val
    ELSE 1000 * Strip(l)[1].val

\* str(m) of an int m, as the f-string writes it.
Str_(i) == <<Num(i, "entero")>>

\* convertir_individual.py lines 13-14, main.py 762-763: the lines of the file
\* that are not blank, stripped.  A line is blank when its strip() is empty.
EsBlancaMut(l) == l = <<>>
EsBlanca(l) == Strip(l) = <<>>
NoEsBlanca(l) == ~EsBlanca(l)
LeerLineas(txt) ==
    LET llenas == SelectSeq(txt, NoEsBlanca)
    IN  [i \in 1..Len(llenas) |-> Strip(llenas[i])]

\* Line 16 (main.py 765): the least number of lines accepted.
MinLineas == 7

\* lines[i] of the code is lines[i + 1] here; an index past the end raises
\* IndexError.
FueraDeRangoMut(lines, i) == FALSE
FueraDeRango(lines, i) == i + 1 > Len(lines)
Elemento(lines, i) == IF i + 1 \in DOMAIN lines THEN lines[i + 1] ELSE <<>>

\* Line 32 joins the rows with ' |\n' and 7 spaces; main.py line 780 with 8.
Sangria(impl) == IF impl = "individual" THEN 7 ELSE 8
Separador(impl) == <<Esp(1), Tok("|"), Tok("\n"), Esp(Sangria(impl))>>

\* Lines 24-33 (main.py 770-781): p, v and s as they are written.
Arreglo(linea) == <<Tok("[")>> \o Reemplazar(linea) \o <<Tok("]")>>
Matriz(matrix_lines, impl) ==
    <<Tok("["), Tok("|"), Esp(1)>> \o Join(matrix_lines, Separador(impl))
    \o <<Esp(1), Tok("|"), Tok("]")>>

\* One write of lines 44-50 (main.py 787-793): key = value; and newlines.
Asignacion(clave, valor, saltos) ==
    <<Tok(clave), Esp(1), Tok("="), Esp(1)>> \o valor \o <<Tok(";")>>
    \o [i \in 1..saltos |-> Tok("\n")]

\* Lines 43-50 (main.py 786-793): the content of the data file.
ContenidoDznMut(c) ==
    Asignacion("n", c.n, 1) \o Asignacion("m", Str_(c.m), 2)
    \o Asignacion("p", c.p, 2) \o Asignacion("v", c.v, 2)
    \o Asignacion("s", c.s, 2) \o Asignacion("ct", c.maxMovs, 2)
    \o Asignacion("maxMovs", c.ct, 0)
ContenidoDzn(c) ==
    Asignacion("n", c.n, 1) \o Asignacion("m", Str_(c.m), 2)
    \o Asignacion("p", c.p, 2) \o Asignacion("v", c.v, 2)
    \o Asignacion("s", c.s, 2) \o Asignacion("ct", c.ct, 2)
    \o Asignacion("maxMovs", c.maxMovs, 0)

\* ------------------------------------------------------ parse_dzn_input
\* parser.py line 115: the pieces between semicolons, stripped, not empty.
NoVacia(l) == l # <<>>
Segmentos(content) ==
    LET partes == Split(content, ";")
    IN  SelectSeq([i \in 1..Len(partes) |-> Strip(partes[i])], NoVacia)

\* Lines 118-121: line.split('=', 1), both sides stripped.
TieneIgual(seg) == \E i \in DOMAIN seg : seg[i].c = "="
PosIgual(seg) == PrimerIndice({i \in DOMAIN seg : seg[i].c = "="})
Clave(seg) == Strip(SubSeq(seg, 1, PosIgual(seg) - 1))
Valor(seg) == Strip(SubSeq(seg, PosIgual(seg) + 1, Len(seg)))
EsClave(seg, clave) == TieneIgual(seg) /\ Clave(seg) = <<Tok(clave)>>

\* value.strip('[]').
EsCorchete(t) == t.c \in {"[", "]"}
StripCorchetes(l) ==
    LET otros == {i \in DOMAIN l : ~EsCorchete(l[i])}
    IN  IF otros = {} THEN <<>>
        ELSE SubSeq(l, PrimerIndice(otros),
                    CHOOSE i \in otros : \A j \in otros : j <= i)

\* Lines 129 and 132: the elements of [a, b, c].
Elementos(valor) == Split(StripCorchetes(valor), ",")

\* Lines 136-140: value.find('[|'), value.rfind('|]') (0: not found) and
\* the pieces of the content between them, stripped, not empty.
PosAbre(valor) ==
    PrimerIndice({i \in 1..(Len(valor) - 1) : valor[i].c = "[" /\ valor[i + 1].c = "|"})
PosCierra(valor) ==
    LET S == {i \in 1..(Len(valor) - 1) : valor[i].c = "|" /\ valor[i + 1].c = "]"}
    IN  IF S = {} THEN 0 ELSE CHOOSE i \in S : \A j \in S : j <= i
FilasDzn(valor) ==
    LET partes == Split(SubSeq(valor, PosAbre(valor) + 2, PosCierra(valor) - 1), "|")
    IN  SelectSeq([i \in 1..Len(partes) |-> Strip(partes[i])], NoVacia)

\* Line 144: the elements of a row, those that are not blank.
ElementosFila(fila) == SelectSeq(Split(fila, ","), NoEsBlanca)

\* Lines 123-150: the conversions of one segment raise ValueError.
LanzaSegmento(seg) ==
    \/ (EsClave(seg, "n") \/ EsClave(seg, "m")) /\ ~EsEntero(Valor(seg))
    \/ EsClave(seg, "p")
         /\ \E i \in DOMAIN Elementos(Valor(seg)) : ~EsEntero(Elementos(Valor(seg))[i])
    \/ EsClave(seg, "v")
         /\ \E i \in DOMAIN Elementos(Valor(seg)) : ~EsNumero(Elementos(Valor(seg))[i])
    \/ EsClave(seg, "s") /\ PosAbre(Valor(seg)) # 0 /\ PosCierra(Valor(seg)) # 0
         /\ \E r \in DOMAIN FilasDzn(Valor(seg)) :
              \E i \in DOMAIN ElementosFila(FilasDzn(Valor(seg))[r]) :
                 ~EsEntero(ElementosFila(FilasDzn(Valor(seg))[r])[i])
    \/ (EsClave(seg, "ct") \/ EsClave(seg, "maxMovs")) /\ ~EsNumero(Valor(seg))

\* The value of the last segment that assigns clave (a later assignment to
\* the same key replaces an earlier one), or <<>>.
UltimoValor(segs, clave) ==
    LET S == {i \in DOMAIN segs : EsClave(segs[i], clave)}
    IN  IF S = {} THEN <<>> ELSE Valor(segs[CHOOSE i \in S : \A j \in S : j <= i])

\* The keys of the dictionary: s is set only when both marks are found.
ClavesDzn(segs) ==
    {c \in {"n", "m", "p", "v", "ct", "maxMovs"} : \E i \in DOMAIN segs : EsClave(segs[i], c)}
    \cup {c \in {"s"} : \E i \in DOMAIN segs :
             EsClave(segs[i], c) /\ PosAbre(Valor(segs[i])) # 0 /\ PosCierra(Valor(segs[i])) # 0}

EnterosDe(partes) == [i \in 1..Len(partes) |-> Int_(partes[i])]
FlotantesDe(partes) == [i \in 1..Len(partes) |-> Float_(partes[i])]

\* The last segment that sets s.
UltimaMatriz(segs) ==
    LET S == {i \in DOMAIN segs : EsClave(segs[i], "s")
                  /\ PosAbre(Valor(segs[i])) # 0 /\ PosCierra(Valor(segs[i])) # 0}
    IN  IF S = {} THEN <<>> ELSE Valor(segs[CHOOSE i \in S : \A j \in S : j <= i])

\* Lines 102-151: the dictionary returned for the content of an existing
\* file, v, ct and maxMovs in thousandths; or the exception raised.
ParseDznInput(content) ==
    LET segs == Segmentos(content)
        claves == ClavesDzn(segs)
        de(c) == UltimoValor(segs, c)
    IN  IF \E i \in DOMAIN segs : LanzaSegmento(segs[i])
          THEN [exc |-> "ValueError", claves |-> {}]
          ELSE [exc |-> "ninguna", claves |-> claves,
                n |-> IF "n" \in claves THEN Int_(de("n")) ELSE 0,
                m |-> IF "m" \in claves THEN Int_(de("m")) ELSE 0,
                p |-> IF "p" \in claves THEN EnterosDe(Elementos(de("p"))) ELSE <<>>,
                v |-> IF "v" \in claves THEN FlotantesDe(Elementos(de("v"))) ELSE <<>>,
                s |-> IF "s" \in claves
                        THEN [r \in 1..Len(FilasDzn(UltimaMatriz(segs))) |->
                                EnterosDe(ElementosFila(FilasDzn(UltimaMatriz(segs))[r]))]
                        ELSE <<>>,
                ct |-> IF "ct" \in claves THEN Float_(de("ct")) ELSE 0,
                maxMovs |-> IF "maxMovs" \in claves THEN Float_(de("maxMovs")) ELSE 0]

\* ------------------------------------------------------------- actions
\* The converter `impl` ("individual": convert_txt_to_dzn, "gui":
\* _convertir_txt_a_dzn) is called on a file with the lines txt; carpeta is
\* the directory part of the path of the data file ("" when the path is a
\* bare file name) and archivo the data file as it is before the call.
\* Each step of the function is an operator from the state of the call to
\* its next state.
Llamada(impl, txt, carpeta, archivo) ==
    [pc |-> "leer", impl |-> impl, txt |-> txt, carpeta |-> carpeta,
     previo |-> archivo, archivo |-> archivo,
     lines |-> <<>>, n |-> <<>>, m |-> 0, p |-> <<>>, v |-> <<>>,
     matrix_lines |-> <<>>, s |-> <<>>, ct |-> <<>>, maxMovs |-> <<>>,
     retorno |-> "ninguno", exc |-> "ninguna",
     params |-> [exc |-> "ninguna", claves |-> {}]]

\* Mutant of FalloConversor: the data file was opened for writing before
\* the input was examined.
FalloConversorMut(c, excepcion) ==
    [c EXCEPT !.pc = "fin", !.retorno = "fallo", !.exc = excepcion,
              !.archivo = [existe |-> TRUE, contenido |-> <<>>]]

\* Lines 54-55 (main.py 797-800): except Exception returns the failure.
FalloConversor(c, excepcion) ==
    [c EXCEPT !.pc = "fin", !.retorno = "fallo", !.exc = excepcion]

\* Lines 13-14 (main.py 762-763).
PasoCargar(c) == [c EXCEPT !.lines = LeerLineas(c.txt), !.pc = "validar"]

\* Lines 16-17 (main.py 765-766).
PasoValidar(c) ==
    IF Len(c.lines) < MinLineas
      THEN FalloConversor(c, "ValueError")
      ELSE [c EXCEPT !.pc = "basicos"]

\* Lines 20-25 (main.py 768-771).
PasoBasicos(c) ==
    IF ~EsEntero(c.lines[2])
      THEN FalloConversor(c, "ValueError")
      ELSE [c EXCEPT !.n = c.lines[1],
                     !.m = Int_(c.lines[2]),
                     !.p = Arreglo(c.lines[3]),
                     !.v = Arreglo(c.lines[4]),
                     !.pc = "matriz"]

\* Lines 28-37 (main.py 773-784): the m rows, then ct and maxMovs.  Only
\* the GUI compares len(lines) with 4 + m first.
PasoMatriz(c) ==
    LET matrix_lines == [i \in 1..c.m |-> Elemento(c.lines, 4 + (i - 1))]
    IN  IF c.impl = "gui" /\ Len(c.lines) < 4 + c.m
          THEN FalloConversor(c, "ValueError")
        ELSE IF \/ \E i \in 0..(c.m - 1) : FueraDeRango(c.lines, 4 + i)
                \/ FueraDeRango(c.lines, 4 + c.m)
                \/ FueraDeRango(c.lines, 5 + c.m)
          THEN FalloConversor(c, "IndexError")
        ELSE [c EXCEPT !.matrix_lines = matrix_lines,
                       !.s = Matriz(matrix_lines, c.impl),
                       !.ct = Elemento(c.lines, 4 + c.m),
                       !.maxMovs = Elemento(c.lines, 5 + c.m),
                       !.pc = "escribir"]

\* Lines 40-52 (main.py 786-795).  os.makedirs of line 40 raises
\* FileNotFoundError on the empty directory name of a bare file name; the
\* GUI has no such call.  Then the file is opened for writing, which
\* replaces what it held, written and closed; the directory and the file
\* are taken to be writable.
PasoEscribir(c) ==
    IF c.impl = "individual" /\ c.carpeta = ""
      THEN FalloConversor(c, "FileNotFoundError")
      ELSE [c EXCEPT !.archivo = [existe |-> TRUE, contenido |-> ContenidoDzn(c)],
                     !.retorno = "exito",
                     !.pc = "fin"]

CargarLineas ==
    /\ conversor.pc = "leer"
    /\ conversor' = PasoCargar(conversor)
    /\ UNCHANGED <<verificador, parser, guardado, worker, gui>>

ValidarLineas ==
    /\ conversor.pc = "validar"
    /\ conversor' = PasoValidar(conversor)
    /\ UNCHANGED <<verificador, parser, guardado, worker, gui>>

ExtraerBasicos ==
    /\ conversor.pc = "basicos"
    /\ conversor' = PasoBasicos(conversor)
    /\ UNCHANGED <<verificador, parser, guardado, worker, gui>>

ArmarMatriz ==
    /\ conversor.pc = "matriz"
    /\ conversor' = PasoMatriz(conversor)
    /\ UNCHANGED <<verificador, parser, guardado, worker, gui>>

EscribirDzn ==
    /\ conversor.pc = "escribir"
    /\ conversor' = PasoEscribir(conversor)
    /\ UNCHANGED <<verificador, parser, guardado, worker, gui>>

\* parser.py lines 102-151: parse_dzn_input reads the file just written.
LeerDzn ==
    /\ conversor.pc = "fin"
    /\ conversor.retorno = "exito"
    /\ conversor' = [conversor EXCEPT
          !.params = ParseDznInput(conversor.archivo.contenido),
          !.pc = "leido"]
    /\ UNCHANGED <<verificador, parser, guardado, worker, gui>>

NextConversor ==
    \/ CargarLineas
    \/ ValidarLineas
    \/ ExtraerBasicos
    \/ ArmarMatriz
    \/ EscribirDzn
    \/ LeerDzn

\* The call run from the state c to its return.
RECURSIVE Ejecutar(_)
Ejecutar(c) ==
    IF c.pc = "leer" THEN Ejecutar(PasoCargar(c))
    ELSE IF c.pc = "validar" THEN Ejecutar(PasoValidar(c))
    ELSE IF c.pc = "basicos" THEN Ejecutar(PasoBasicos(c))
    ELSE IF c.pc = "matriz" THEN Ejecutar(PasoMatriz(c))
    ELSE IF c.pc = "escribir" THEN Ejecutar(PasoEscribir(c))
    ELSE c

\* -------------------------------------------------------------- inputs
\* The two converters.
Implementaciones == {"individual", "gui"}

\* A comma-separated line of numerals, with or without spaces after the
\* commas.
LineaArreglo(nums, espacios) ==
    Join([i \in 1..Len(nums) |-> <<nums[i]>>],
         IF espacios THEN <<Tok(","), Esp(1)>> ELSE <<Tok(",")>>)

\* The lines of the instance with mm opinions: p[i] = i, v[1] = 1 and
\* v[i] = 0.i97, row i of s is i,i+1,0.
LineaP(mm, espacios) == LineaArreglo([i \in 1..mm |-> Num(i, "entero")], espacios)
LineaV(mm, espacios) ==
    LineaArreglo([i \in 1..mm |-> IF i = 1 THEN Num(1, "entero")
                                      ELSE Num(100 * i + 97, "decimal")], espacios)
LineaS(i, espacios) ==
    LineaArreglo(<<Num(i, "entero"), Num(i + 1, "entero"), Num(0, "entero")>>, espacios)
LineaCt == <<Num(2550, "decimal")>>
LineaMaxMovs == <<Num(10, "entero")>>

\* The non-blank lines of a file: n, the line of m, p and v, `filas` rows
\* of s, and the first `cola` of ct and maxMovs.  p and v have as many
\* entries as there are rows (one when there is no row).
LineasDeArchivo(declarado, filas, cola, espacios) ==
    LET mm == IF filas = 0 THEN 1 ELSE filas
    IN  << <<Num((mm * (mm + 1)) \div 2, "entero")>>, <<declarado>>,
           LineaP(mm, espacios), LineaV(mm, espacios) >>
        \o [i \in 1..filas |-> LineaS(i, espacios)]
        \o SubSeq(<<LineaCt, LineaMaxMovs>>, 1, cola)

\* The forms the line of m takes: an integer from 0 to one more than the
\* most rows, written canonically or not, or a numeral with a decimal point.
Declarados == {Num(d, f) : d \in 0..(MaxM + 1), f \in {"entero", "ceros"}}
                 \cup {Num(2000, "decimal")}

\* A blank line: empty, or made of spaces.
Blancas == {<<>>, <<Esp(2)>>}

\* txt with the line b put before its line i (after the last when
\* i = Len(txt) + 1), and txt with spaces around its line i.
Insertar(txt, i, b) ==
    SubSeq(txt, 1, i - 1) \o <<b>> \o SubSeq(txt, i, Len(txt))
Rodear(txt, i) ==
    [j \in DOMAIN txt |-> IF j = i THEN <<Esp(1)>> \o txt[j] \o <<Esp(3)>> ELSE txt[j]]

\* The files: the non-blank lines as above, with spaces after the commas or
\* without; and, without, with one blank line put anywhere or with spaces
\* around one line.
Archivos ==
    UNION {
      LET base == LineasDeArchivo(d, filas, cola, FALSE)
      IN  {base, LineasDeArchivo(d, filas, cola, TRUE)}
          \cup {Insertar(base, i, b) : i \in 1..(Len(base) + 1), b \in Blancas}
          \cup {Rodear(base, i) : i \in DOMAIN base}
      : d \in Declarados, filas \in 0..MaxM, cola \in 0..2 }

\* The data file before the call: absent, or left by an earlier conversion.
ArchivosPrevios ==
    {[existe |-> FALSE, contenido |-> <<>>],
     [existe |-> TRUE, contenido |-> Asignacion("n", <<Num(9, "entero")>>, 0)]}

\* convertir_individual.py lines 73-74: select_and_convert_file passes a
\* path in the folder Pruebas-dzn(Ejecutadas); main.py lines 758-759: the
\* GUI writes in the directory of temporary files.
Carpeta(impl) == IF impl = "individual" THEN "Pruebas-dzn(Ejecutadas)" ELSE "tmp"

InitConversor ==
    /\ VerificadorInactivo
    /\ parser = Inactivo /\ guardado = Inactivo /\ worker = Inactivo
    /\ gui = Inactivo
    /\ \E impl \in Implementaciones, txt \in Archivos, archivo \in ArchivosPrevios :
          conversor = Llamada(impl, txt, Carpeta(impl), archivo)

SpecConversor == InitConversor /\ [][NextConversor]_vars

\* convert_txt_to_dzn takes the path of the data file from its caller: a
\* path with a directory part, or a bare file name, which names a file of
\* the working directory.  The GUI makes the path itself (main.py 757-759).
Carpetas(impl) == IF impl = "individual" THEN {Carpeta(impl), ""} ELSE {Carpeta(impl)}

InitConversorRutas ==
    /\ VerificadorInactivo
    /\ parser = Inactivo /\ guardado = Inactivo /\ worker = Inactivo
    /\ gui = Inactivo
    /\ \E impl \in Implementaciones, txt \in Archivos, archivo \in ArchivosPrevios :
          \E carpeta \in Carpetas(impl) :
              conversor = Llamada(impl, txt, carpeta, archivo)

\* The converters called with every path their signature admits.
SpecConversorRutas == InitConversorRutas /\ [][NextConversor]_vars

\* ----------------------------------------------------------------------
\* Claims about the converter and parse_dzn_input
\* ----------------------------------------------------------------------
ConversorRetorno == conversor.pc \in {"fin", "leido"}

\* A text without its whitespace, and the non-blank lines of a file, each
\* without its whitespace.
NoEsEspacio(t) == t.c \notin {" ", "\n"}
SinEspacios(l) == SelectSeq(l, NoEsEspacio)
EspLineas(txt) ==
    SelectSeq([i \in 1..Len(txt) |-> SinEspacios(txt[i])], NoVacia)

\* A line that is one numeral, and a line of k numerals between commas.
EspEsNumeral(l, formas) == Len(l) = 1 /\ l[1].c = "num" /\ l[1].forma \in formas
EspEsLista(l, k, formas) ==
    /\ Len(l) = 2 * k - 1
    /\ \A i \in DOMAIN l :
         IF i % 2 = 1 THEN l[i].c = "num" /\ l[i].forma \in formas
         ELSE l[i].c = ","

Enteras == {"entero", "ceros"}
Numerales == {"entero", "ceros", "decimal"}

\* The file is well formed: its non-blank lines are n, m >= 1, p (m
\* integers), v (m numbers), m rows of s (3 integers each), ct and maxMovs.
EspBienFormado(txt) ==
    LET L == EspLineas(txt)
    IN  /\ Len(L) >= MinLineas
        /\ EspEsNumeral(L[1], Enteras)
        /\ EspEsNumeral(L[2], Enteras)
        /\ L[2][1].val >= 1
        /\ Len(L) = L[2][1].val + 6
        /\ EspEsLista(L[3], L[2][1].val, Enteras)
        /\ EspEsLista(L[4], L[2][1].val, Numerales)
        /\ \A i \in 1..L[2][1].val : EspEsLista(L[4 + i], NumNiveles, Enteras)
        /\ EspEsNumeral(L[5 + L[2][1].val], Numerales)
        /\ EspEsNumeral(L[6 + L[2][1].val], Numerales)

EspAsignacion(clave, valor) == <<Tok(clave), Tok("=")>> \o valor \o <<Tok(";")>>

\* C15: on a well-formed file the converter succeeds and the data file
\* holds, whitespace apart, the assignments n, m, p, v, s, ct, maxMovs in
\* this order: n is line 1, m the integer of line 2, p and v lines 3 and 4
\* in brackets, s the m lines after them in order, separated by |, between
\* [| and |], ct and maxMovs the two lines that follow.
C15_Formato ==
    ConversorRetorno /\ EspBienFormado(conversor.txt) =>
        LET L == EspLineas(conversor.txt)
            mm == L[2][1].val
        IN  /\ conversor.retorno = "exito"
            /\ conversor.archivo.existe
            /\ SinEspacios(conversor.archivo.contenido) =
                 EspAsignacion("n", L[1])
                 \o EspAsignacion("m", <<Num(mm, "entero")>>)
                 \o EspAsignacion("p", <<Tok("[")>> \o L[3] \o <<Tok("]")>>)
                 \o EspAsignacion("v", <<Tok("[")>> \o L[4] \o <<Tok("]")>>)
                 \o EspAsignacion("s", <<Tok("["), Tok("|")>>
                        \o Join([i \in 1..mm |-> L[4 + i]], <<Tok("|")>>)
                        \o <<Tok("|"), Tok("]")>>)
                 \o EspAsignacion("ct", L[5 + mm])
                 \o EspAsignacion("maxMovs", L[6 + mm])

\* convert_txt_to_dzn converted a well-formed file of three opinions that
\* has a blank line and writes m as 03.
C15_Testigo ==
    /\ conversor.pc = "fin"
    /\ conversor.impl = "individual"
    /\ EspBienFormado(conversor.txt)
    /\ Len(conversor.txt) = 10
    /\ EspLineas(conversor.txt)[2] = <<Num(3, "ceros")>>
    /\ conversor.retorno = "exito"

\* C16: the converter returns its failure result on every file with fewer
\* than 7 non-blank lines and on every file whose line 2 is an integer m
\* with fewer than m + 6 non-blank lines.
C16_Fallo ==
    ConversorRetorno =>
        LET L == EspLineas(conversor.txt)
        IN  (\/ Len(L) < 7
             \/ Len(L) >= 2 /\ EspEsNumeral(L[2], Enteras) /\ Len(L) < L[2][1].val + 6)
            => conversor.retorno = "fallo" /\ conversor.pc = "fin"

\* convert_txt_to_dzn failed on a file of 8 non-blank lines that declares
\* m = 3: the second row is there, the third is not.
C16_Testigo ==
    /\ conversor.pc = "fin"
    /\ conversor.impl = "individual"
    /\ Len(EspLineas(conversor.txt)) = 8
    /\ EspLineas(conversor.txt)[2] = <<Num(3, "entero")>>
    /\ conversor.retorno = "fallo"
    /\ conversor.exc = "IndexError"

\* The integers, and the numbers in thousandths, of a line of numerals.
EsNumeral(t) == t.c = "num"
EspEnteros(l) ==
    LET nums == SelectSeq(l, EsNumeral)
    IN  [i \in 1..Len(nums) |-> nums[i].val]
EspReales(l) ==
    LET nums == SelectSeq(l, EsNumeral)
    IN  [i \in 1..Len(nums) |->
            IF nums[i].forma = "decimal" THEN nums[i].val ELSE 1000 * nums[i].val]

\* C17: the dictionary parse_dzn_input reads from the data file written for
\* a well-formed file has the seven keys, with the values of the file.
C17_IdaYVuelta ==
    conversor.pc = "leido" /\ EspBienFormado(conversor.txt) =>
        LET L == EspLineas(conversor.txt)
            mm == L[2][1].val
            params == conversor.params
        IN  /\ params.exc = "ninguna"
            /\ params.claves = {"n", "m", "p", "v", "s", "ct", "maxMovs"}
            /\ params.n = L[1][1].val
            /\ params.m = mm
            /\ params.p = EspEnteros(L[3])
            /\ params.v = EspReales(L[4])
            /\ params.s = [i \in 1..mm |-> EspEnteros(L[4 + i])]
            /\ params.ct = EspReales(L[5 + mm])[1]
            /\ params.maxMovs = EspReales(L[6 + mm])[1]

\* The file of three opinions, with spaces after its commas, went through
\* the converter and was read back.
C17_Testigo ==
    /\ conversor.pc = "leido"
    /\ EspBienFormado(conversor.txt)
    /\ \E i \in DOMAIN conversor.txt[3] : conversor.txt[3][i].c = " "
    /\ conversor.params.m = 3
    /\ conversor.params.p = <<1, 2, 3>>
    /\ conversor.params.v = <<1000, 297, 397>>
    /\ conversor.params.s = <<<<1, 2, 0>>, <<2, 3, 0>>, <<3, 4, 0>>>>
    /\ conversor.params.ct = 2550
    /\ conversor.params.maxMovs = 10000

\* A line with a token that is not whitespace.
EspTieneTexto(l) == \E i \in DOMAIN l : NoEsEspacio(l[i])

\* The file without its blank lines, and the files with one more blank line.
EspVariantes(txt) ==
    {SelectSeq(txt, EspTieneTexto)}
    \cup {Insertar(txt, i, b) : i \in 1..(Len(txt) + 1), b \in Blancas}

\* C18: the result of the converter and the data file it leaves are those
\* of the call on the file without its blank lines, and of the call on the
\* file with one more blank line, empty or of spaces, at any position.
C18_Blancas ==
    conversor.pc = "fin" =>
        \A txt2 \in EspVariantes(conversor.txt) :
            LET r == Ejecutar(Llamada(conversor.impl, txt2, conversor.carpeta,
                                      conversor.previo))
            IN  /\ r.retorno = conversor.retorno
                /\ r.archivo = conversor.archivo

\* A well-formed file with a line of spaces before the line of m was
\* converted.
C18_Testigo ==
    /\ conversor.pc = "fin"
    /\ conversor.retorno = "exito"
    /\ Len(conversor.txt) >= 2
    /\ conversor.txt[2] = <<Esp(2)>>
    /\ EspBienFormado(conversor.txt)

\* The exceptions the format of the input raises: too few lines, a line of
\* m that is no integer (ValueError), a line past the end (IndexError).
ErroresDeFormato == {"ValueError", "IndexError"}

\* C29: when the converter returns its failure because of the format of
\* the input, the data file is as it was before the call: not created when
\* it was absent, and with the content it had when it existed.
C29_SinEscritura ==
    (conversor.pc = "fin" /\ conversor.retorno = "fallo"
        /\ conversor.exc \in ErroresDeFormato)
        => conversor.archivo = conversor.previo

\* C29 witness: the file declares more rows than it has, a data file left
\* by an earlier conversion exists, and the call has failed.
C29_Testigo ==
    /\ conversor.pc = "fin"
    /\ conversor.retorno = "fallo"
    /\ conversor.exc = "IndexError"
    /\ Len(conversor.lines) >= MinLineas
    /\ conversor.m > Len(conversor.lines) - 6
    /\ conversor.previo.existe
    /\ conversor.previo.contenido # <<>>
    /\ conversor.archivo = conversor.previo

\* C30: when convert_txt_to_dzn has returned, _convertir_txt_a_dzn called
\* on the same input and the same file system returns the same outcome,
\* and on success the two data files are equal but for whitespace.
C30_Equivalentes ==
    (conversor.pc = "fin" /\ conversor.impl = "individual") =>
        LET otra == Ejecutar(Llamada("gui", conversor.txt, Carpeta("gui"),
                                     conversor.previo))
        IN  /\ otra.retorno = conversor.retorno
            /\ conversor.retorno = "exito" =>
                  SinEspacios(otra.archivo.contenido)
                      = SinEspacios(conversor.archivo.contenido)

\* ======================================================================
\* main.py: MinPolGUI._guardar_solucion_txt
\* ======================================================================
\* The solution file is a sequence of lines, each the sequence of the
\* integers it holds between commas.  polarizacion_str is a token: the
\* numeral the parser found, or the sentinel.
\* Line 983: m = 3 when the data file gives none.
MPorDefecto == 3

\* Lines 970-973: int(float(polarizacion_str)), 0 when float() fails.
PolarizacionInt(polarizacion_str) ==
    IF polarizacion_str.c # "num" THEN 0
    ELSE IF polarizacion_str.forma = "decimal" THEN polarizacion_str.val \div 1000
    ELSE polarizacion_str.val

\* Lines 983-989: m is read from the file at current_dzn_path when the
\* attribute is set; params.get('m', 3) and the bare except leave 3 when
\* the dictionary has no m or the reading raises.
ObtenerM(current_dzn_path, dzn) ==
    IF current_dzn_path = "ninguno" THEN MPorDefecto
    ELSE LET params == ParseDznInput(dzn)
         IN  IF params.exc # "ninguna" THEN MPorDefecto
             ELSE IF "m" \in params.claves THEN params.m
             ELSE MPorDefecto

\* Lines 1019-1026: a row cut or padded with zeros to mm entries.
FilaEscrita(fila, mm) == [j \in 1..mm |-> IF j <= Len(fila) THEN fila[j] ELSE 0]

\* Lines 1013-1034: the mm lines written for tier k.
MatrizEscrita(x_matrices, k, mm) ==
    IF k <= Len(x_matrices) /\ x_matrices[k] # <<>>
      THEN [i \in 1..mm |->
              IF i <= Len(x_matrices[k]) THEN FilaEscrita(x_matrices[k][i], mm)
              ELSE [j \in 1..mm |-> 0]]
      ELSE [i \in 1..mm |-> [j \in 1..mm |-> 0]]

\* Lines 1001-1034: the lines of the file.
LineasSolucion(polarizacion_int, x_matrices, mm) ==
    << <<polarizacion_int>> >>
    \o << <<1>> >> \o MatrizEscrita(x_matrices, 1, mm)
    \o << <<2>> >> \o MatrizEscrita(x_matrices, 2, mm)
    \o << <<3>> >> \o MatrizEscrita(x_matrices, 3, mm)

\* ------------------------------------------------------------- actions
\* _on_minizinc_finished (line 907) calls _guardar_solucion_txt after a run
\* on the data file `ejecutado` (its m and its content); current_dzn_path
\* is "ninguno" when the attribute is None.
LlamarGuardar(ejecutado, current_dzn_path, polarizacion_str, x_matrices) ==
    guardado = [pc |-> "polarizacion", ejecutado |-> ejecutado,
                current_dzn_path |-> current_dzn_path,
                polarizacion_str |-> polarizacion_str, x_matrices |-> x_matrices,
                polarizacion_int |-> 0, m |-> MPorDefecto, archivo |-> <<>>]

\* Lines 969-973.
ConvertirPolarizacion ==
    /\ guardado.pc = "polarizacion"
    /\ guardado' = [guardado EXCEPT
          !.polarizacion_int = PolarizacionInt(guardado.polarizacion_str),
          !.pc = "m"]
    /\ UNCHANGED <<verificador, parser, conversor, worker, gui>>

\* Lines 983-989.
LeerM ==
    /\ guardado.pc = "m"
    /\ guardado' = [guardado EXCEPT
          !.m = ObtenerM(guardado.current_dzn_path, guardado.ejecutado.contenido),
          !.pc = "escribir"]
    /\ UNCHANGED <<verificador, parser, conversor, worker, gui>>

\* Lines 991-1036.
EscribirSolucion ==
    /\ guardado.pc = "escribir"
    /\ guardado' = [guardado EXCEPT
          !.archivo = LineasSolucion(guardado.polarizacion_int,
                                     guardado.x_matrices, guardado.m),
          !.pc = "fin"]
    /\ UNCHANGED <<verificador, parser, conversor, worker, gui>>

NextGuardar ==
    \/ ConvertirPolarizacion
    \/ LeerM
    \/ EscribirSolucion

\* -------------------------------------------------------------- inputs
\* The call of the GUI converter on the file of mm opinions.
Convertido(mm) ==
    Ejecutar(Llamada("gui",
                     LineasDeArchivo(Num(mm, "entero"), mm, 2, FALSE),
                     Carpeta("gui"),
                     [existe |-> FALSE, contenido |-> <<>>]))

\* A MiniZinc comment up to the end of its line.
Comentario(texto) == <<Esp(1), Tok("%"), Esp(1), Tok(texto), Tok("\n")>>

\* A data file of mm opinions written by hand, with a comment after each of
\* its first two assignments (main.py lines 724-736: a .dzn file is taken
\* as it is).
Comentado(mm) ==
    LET c == Convertido(mm)
    IN  Asignacion("n", c.n, 0) \o Comentario("personas")
        \o Asignacion("m", Str_(c.m), 0) \o Comentario("opiniones")
        \o Asignacion("p", c.p, 2) \o Asignacion("v", c.v, 2)
        \o Asignacion("s", c.s, 2) \o Asignacion("ct", c.ct, 2)
        \o Asignacion("maxMovs", c.maxMovs, 0)

\* The data files that are executed: written by the converter, or by hand.
Ejecutados ==
    {[m |-> mm, contenido |-> Convertido(mm).archivo.contenido] : mm \in 1..MaxM}
    \cup {[m |-> mm, contenido |-> Comentado(mm)] : mm \in 1..MaxM}

\* The three matrices of the parser for mm opinions: mm x mm with i + j - 1
\* at row i, column j, but for the one of tier kd, which has any shape.
MatricesParser(mm, kd, filas, cols) ==
    LET llena == [i \in 1..mm |-> [j \in 1..mm |-> i + j - 1]]
    IN  [k \in Niveles |->
            IF k = kd THEN Redimensionar(llena, filas, cols, 1) ELSE llena]

\* The polarizations of the parser: 3, 4.5, and the sentinel.
Polarizaciones ==
    {Num(3, "entero"), Num(4500, "decimal"), Tok("Valor no encontrado")}

\* current_dzn_path is the path of the imported file, or None after
\* 'Cambiar Archivo' (lines 697-705), which stays enabled during a run.
InitGuardar ==
    /\ VerificadorInactivo
    /\ parser = Inactivo /\ conversor = Inactivo /\ worker = Inactivo
    /\ gui = Inactivo
    /\ \E e \in Ejecutados, ruta \in {"definido", "ninguno"},
          pol \in Polarizaciones, kd \in Niveles,
          filas \in 0..(MaxM + 1), cols \in 0..(MaxM + 1) :
          LlamarGuardar(e, ruta, pol, MatricesParser(e.m, kd, filas, cols))

SpecGuardar == InitGuardar /\ [][NextGuardar]_vars

\* ----------------------------------------------------------------------
\* Claims about _guardar_solucion_txt
\* ----------------------------------------------------------------------
\* The entry of row i, column j of the matrix of tier k, 0 when the parsed
\* result has none.
EspCelda(x_matrices, k, i, j) ==
    IF k <= Len(x_matrices) /\ i <= Len(x_matrices[k]) /\ j <= Len(x_matrices[k][i])
      THEN x_matrices[k][i][j] ELSE 0

\* C19: the file written has 1 + 3 * (1 + m) lines, m being that of the
\* data file executed: an integer, then for each tier its number and m
\* lines of m integers, the entries of the parsed matrices, 0 where the
\* parsed result has none.
C19_FormatoSolucion ==
    guardado.pc = "fin" =>
        LET mm == guardado.ejecutado.m
            A == guardado.archivo
        IN  /\ Len(A) = 1 + 3 * (1 + mm)
            /\ Len(A[1]) = 1
            /\ \A k \in Niveles :
                 /\ A[1 + (k - 1) * (1 + mm) + 1] = <<k>>
                 /\ \A i \in 1..mm :
                      A[1 + (k - 1) * (1 + mm) + 1 + i] =
                          [j \in 1..mm |-> EspCelda(guardado.x_matrices, k, i, j)]

\* ======================================================================
\* main.py: MinizincWorker
\* ======================================================================
\* The worker thread runs run(); the solver subprocess and the GUI thread,
\* which may call interrupt(), run beside it.  The subprocess writes lines
\* to a pipe, closes it, and then becomes a process that has exited: its
\* estado is "corriendo", then "cerrado", then "salio".  poll() is None
\* until the process has exited, and readline() returns the next line of
\* the pipe, or '' (the line "eof") once the pipe is closed and empty.
\* A line is "normal", "dll" (it has 'cannot load gurobi dll') or
\* "biblioteca" (it has 'included from library' and the name of the model).
\* Most lines a subprocess writes.
MaxSalida == 2

TiposDeLinea == {"normal", "dll", "biblioteca"}

SinProceso == [estado |-> "ninguno", buffer |-> <<>>, escritas |-> 0, returncode |-> 0]

\* Lines 28-34 and 185-186: the worker as run() starts.
WorkerNuevo(model_existe, dzn_existe, gurobi) ==
    [pc |-> "run", model_existe |-> model_existe, dzn_existe |-> dzn_existe,
     gurobi |-> gurobi, intento |-> "ninguno", suppress_dll_errors |-> FALSE,
     dll_error_detected |-> FALSE, line |-> "eof", is_interrupted |-> FALSE,
     last_output_lines |-> <<>>, success |-> FALSE, proceso |-> SinProceso,
     lanzados |-> 0, finished |-> 0, finished_output |-> <<>>,
     finished_success |-> FALSE]

\* process.poll() is None.
PollEsNone(proceso) == proceso.estado # "salio"

\* process.terminate(): a process that has not exited does, with the code
\* of the signal; its pipe is closed.
Terminar(proceso) ==
    IF proceso.estado \in {"corriendo", "cerrado"}
      THEN [proceso EXCEPT !.estado = "salio", !.returncode = -15]
      ELSE proceso

\* Where run() goes on when _run_minizinc_command returns.
TrasComando(w) == IF w.intento = "gurobi" THEN "tras_gurobi" ELSE "mensajes"

\* ------------------------------------------------- the worker thread
\* Lines 186-195: a missing file is reported and run() returns through its
\* finally clause.
RunInicio ==
    /\ worker.pc = "run"
    /\ worker' = [worker EXCEPT
          !.pc = IF worker.model_existe /\ worker.dzn_existe THEN "solver" ELSE "finally"]
    /\ UNCHANGED <<verificador, parser, conversor, guardado, gui>>

\* Lines 197-215: Gurobi is tried first when it is listed.
ElegirSolver ==
    /\ worker.pc = "solver"
    /\ worker' = IF worker.gurobi
                   THEN [worker EXCEPT !.intento = "gurobi",
                                       !.suppress_dll_errors = TRUE, !.pc = "popen"]
                   ELSE [worker EXCEPT !.pc = "gecode"]
    /\ UNCHANGED <<verificador, parser, conversor, guardado, gui>>

\* Lines 130-140: the subprocess starts; or Popen raises, which lines
\* 181-183 turn into the result False.
Popen ==
    /\ worker.pc = "popen"
    /\ \/ worker' = [worker EXCEPT
             !.proceso = [SinProceso EXCEPT !.estado = "corriendo"],
             !.lanzados = @ + 1,
             !.dll_error_detected = FALSE,
             !.pc = "readline"]
       \/ worker' = [worker EXCEPT !.success = FALSE, !.pc = TrasComando(worker)]
    /\ UNCHANGED <<verificador, parser, conversor, guardado, gui>>

\* Line 143: readline() blocks until there is a line or the end of the
\* output.
Readline ==
    /\ worker.pc = "readline"
    /\ \/ /\ worker.proceso.buffer # <<>>
          /\ worker' = [worker EXCEPT !.line = Head(worker.proceso.buffer),
                                      !.proceso.buffer = Tail(@),
                                      !.pc = "poll"]
       \/ /\ worker.proceso.buffer = <<>>
          /\ worker.proceso.estado \in {"cerrado", "salio"}
          /\ worker' = [worker EXCEPT !.line = "eof", !.pc = "poll"]
    /\ UNCHANGED <<verificador, parser, conversor, guardado, gui>>

\* Lines 144-145: the loop is left when the output has ended and poll() is
\* None.
Poll ==
    /\ worker.pc = "poll"
    /\ worker' = [worker EXCEPT
          !.pc = IF worker.line = "eof" /\ PollEsNone(worker.proceso)
                   THEN "wait" ELSE "procesar"]
    /\ UNCHANGED <<verificador, parser, conversor, guardado, gui>>

\* Lines 146-165: a line is filtered, or kept and shown; `continue` goes
\* back to readline() without the check of line 169.  A kept line is
\* recorded with its kind and the attempt whose subprocess wrote it.
Procesar ==
    /\ worker.pc = "procesar"
    /\ worker' =
         IF worker.line = "eof" THEN [worker EXCEPT !.pc = "interrumpido"]
         ELSE IF worker.line = "biblioteca" THEN [worker EXCEPT !.pc = "readline"]
         ELSE IF worker.line = "dll" /\ worker.suppress_dll_errors
           THEN [worker EXCEPT !.dll_error_detected = TRUE, !.pc = "readline"]
         ELSE [worker EXCEPT
                 !.dll_error_detected = @ \/ worker.line = "dll",
                 !.last_output_lines =
                     Append(@, [tipo |-> worker.line, de |-> worker.intento]),
                 !.pc = "interrumpido"]
    /\ UNCHANGED <<verificador, parser, conversor, guardado, gui>>

\* Lines 167-169.
RevisarInterrupcion ==
    /\ worker.pc = "interrumpido"
    /\ worker' = IF worker.is_interrupted
                   THEN [worker EXCEPT !.proceso = Terminar(@), !.pc = "wait"]
                   ELSE [worker EXCEPT !.pc = "readline"]
    /\ UNCHANGED <<verificador, parser, conversor, guardado, gui>>

\* Lines 171-177: wait() blocks until the process has exited.
Esperar ==
    /\ worker.pc = "wait"
    /\ worker.proceso.estado = "salio"
    /\ worker' = [worker EXCEPT
          !.success = ~worker.dll_error_detected /\ worker.proceso.returncode = 0,
          !.pc = TrasComando(worker)]
    /\ UNCHANGED <<verificador, parser, conversor, guardado, gui>>

\* Mutant of TrasGurobi: the lines of the failed Gurobi run are kept.
TrasGurobiMut ==
    /\ worker.pc = "tras_gurobi"
    /\ worker' = [worker EXCEPT !.pc = "gecode"]
    /\ UNCHANGED <<verificador, parser, conversor, guardado, gui>>

\* Lines 216-220: the lines of a failed Gurobi run are dropped.
TrasGurobi ==
    /\ worker.pc = "tras_gurobi"
    /\ worker' = IF ~worker.success /\ ~worker.is_interrupted
                   THEN [worker EXCEPT !.last_output_lines = <<>>, !.pc = "gecode"]
                   ELSE [worker EXCEPT !.pc = "gecode"]
    /\ UNCHANGED <<verificador, parser, conversor, guardado, gui>>

\* Lines 222-231.
Gecode ==
    /\ worker.pc = "gecode"
    /\ worker' = IF ~worker.success /\ ~worker.is_interrupted
                   THEN [worker EXCEPT !.intento = "gecode",
                                       !.suppress_dll_errors = FALSE, !.pc = "popen"]
                   ELSE [worker EXCEPT !.pc = "mensajes"]
    /\ UNCHANGED <<verificador, parser, conversor, guardado, gui>>

\* Lines 233-239: the closing messages.
Mensajes ==
    /\ worker.pc = "mensajes"
    /\ worker' = [worker EXCEPT !.pc = "finally"]
    /\ UNCHANGED <<verificador, parser, conversor, guardado, gui>>

\* Lines 244-246.
EmitirFinished ==
    /\ worker.pc = "finally"
    /\ worker' = [worker EXCEPT
          !.finished = @ + 1,
          !.finished_output = worker.last_output_lines,
          !.finished_success = ~worker.is_interrupted /\ worker.success,
          !.pc = "fin"]
    /\ UNCHANGED <<verificador, parser, conversor, guardado, gui>>

HiloWorker ==
    \/ RunInicio
    \/ ElegirSolver
    \/ Popen
    \/ Readline
    \/ Poll
    \/ Procesar
    \/ RevisarInterrupcion
    \/ Esperar
    \/ TrasGurobi
    \/ Gecode
    \/ Mensajes
    \/ EmitirFinished

\* ----------------------------------------------------- the subprocess
ProcesoEscribe ==
    /\ worker.pc # "inactivo"
    /\ worker.proceso.estado = "corriendo"
    /\ worker.proceso.escritas < MaxSalida
    /\ \E l \in TiposDeLinea :
          worker' = [worker EXCEPT !.proceso.buffer = Append(@, l),
                                   !.proceso.escritas = @ + 1]
    /\ UNCHANGED <<verificador, parser, conversor, guardado, gui>>

ProcesoCierra ==
    /\ worker.pc # "inactivo"
    /\ worker.proceso.estado = "corriendo"
    /\ worker' = [worker EXCEPT !.proceso.estado = "cerrado"]
    /\ UNCHANGED <<verificador, parser, conversor, guardado, gui>>

ProcesoSale ==
    /\ worker.pc # "inactivo"
    /\ worker.proceso.estado = "cerrado"
    /\ \E codigo \in {0, 1} :
          worker' = [worker EXCEPT !.proceso.estado = "salio",
                                   !.proceso.returncode = codigo]
    /\ UNCHANGED <<verificador, parser, conversor, guardado, gui>>

\* ----------------------------------------------------- the GUI thread
\* Lines 36-39: interrupt(), called by _stop_execution while run() runs.
Interrumpir ==
    /\ worker.pc \notin {"inactivo", "fin"}
    /\ ~worker.is_interrupted
    /\ worker' = [worker EXCEPT !.is_interrupted = TRUE, !.proceso = Terminar(@)]
    /\ UNCHANGED <<verificador, parser, conversor, guardado, gui>>

NextWorker ==
    \/ HiloWorker
    \/ ProcesoEscribe
    \/ ProcesoCierra
    \/ ProcesoSale
    \/ Interrumpir

InitWorker ==
    /\ VerificadorInactivo
    /\ parser = Inactivo /\ conversor = Inactivo /\ guardado = Inactivo
    /\ gui = Inactivo
    /\ \E model_existe \in BOOLEAN, dzn_existe \in BOOLEAN, gurobi \in BOOLEAN :
          worker = WorkerNuevo(model_existe, dzn_existe, gurobi)

SpecWorker == InitWorker /\ [][NextWorker]_vars

\* The thread is scheduled, and a subprocess that runs ends: it closes its
\* output and exits.
SpecWorkerJusto ==
    /\ InitWorker
    /\ [][NextWorker]_vars
    /\ WF_vars(HiloWorker)
    /\ WF_vars(ProcesoCierra)
    /\ WF_vars(ProcesoSale)

\* ----------------------------------------------------------------------
\* Claims about MinizincWorker
\* ----------------------------------------------------------------------
EnBucle == worker.pc \in {"readline", "poll", "procesar", "interrumpido"}
SalidaAgotada == worker.proceso.estado = "salio" /\ worker.proceso.buffer = <<>>

\* C20: once the subprocess has exited and its output is exhausted, the read
\* loop ends and run() emits finished.
C20_Termina == (EnBucle /\ SalidaAgotada) ~> (worker.finished = 1)

\* C27: once interrupt() has been called, run() starts no subprocess.
C27_SinLanzar ==
    [][worker.is_interrupted => worker'.lanzados = worker.lanzados]_vars

\* run() went on to Gecode after an attempt with Gurobi.
GecodeTrasGurobi == worker.gurobi /\ worker.intento = "gecode"

\* C28: run() emits finished exactly once, as it returns; the flag it emits
\* is true only if the worker was not interrupted and the last subprocess
\* exited with code 0 and without a Gurobi DLL error; and after a fall back
\* to Gecode the output emitted has no line of the Gurobi attempt.
C28_Finished ==
    /\ worker.finished <= 1
    /\ worker.pc = "fin" <=> worker.finished = 1
    /\ (worker.finished = 1 /\ worker.finished_success) =>
          /\ ~worker.is_interrupted
          /\ worker.lanzados >= 1
          /\ worker.proceso.estado = "salio"
          /\ worker.proceso.returncode = 0
          /\ ~worker.dll_error_detected
    /\ (worker.finished = 1 /\ GecodeTrasGurobi) =>
          \A i \in DOMAIN worker.finished_output :
              worker.finished_output[i].de = "gecode"

\* C28 witness: the Gurobi attempt failed, Gecode ran and succeeded, and
\* finished was emitted with the lines of Gecode and the flag true.
C28_Testigo ==
    /\ worker.pc = "fin"
    /\ GecodeTrasGurobi
    /\ worker.lanzados = 2
    /\ worker.finished = 1
    /\ worker.finished_success
    /\ Len(worker.finished_output) >= 2

\* ======================================================================
\* main.py: MinPolGUI
\* ======================================================================
\* The window is one record: the attributes of lines 481-486, the enabled
\* and visible flags of the buttons and of their two containers, the
\* worker thread of the run in progress and the finished signal that thread
\* has emitted and the GUI thread has not handled yet.  Runs are numbered
\* from 1; what a run left behind (last_output, last_x_matrices, the
\* solution file) carries the number of its run, 0 standing for None.
\* current_dzn_path is "ninguno" (None), "tmp" (the file the converter
\* wrote) or "dzn" (a file imported as it is); dzn is the content of that
\* file.  hilo is "ninguno", "corriendo" (run() is running), "emitido" (run()
\* has emitted finished) or "detenido" (_stop_execution has waited for the
\* thread; its signal is still queued).
\* Most runs started in a session.
MaxCorridas == 2

NoHaySenal == [hay |-> FALSE, corrida |-> 0, output |-> <<>>, success |-> FALSE]

\* Lines 474-486, 556-603 and 653-669: the window as it is shown.
GuiNueva ==
    [pc |-> "ventana",
     current_dzn_path |-> "ninguno", dzn |-> <<>>,
     last_output |-> [corrida |-> 0, texto |-> <<>>],
     last_x_matrices |-> [corrida |-> 0, x |-> <<>>],
     last_polarizacion |-> ValorNoEncontrado,
     import_txt_enabled |-> TRUE, import_dzn_enabled |-> TRUE,
     execute_enabled |-> FALSE, check_enabled |-> FALSE,
     entry_visible |-> TRUE, ready_visible |-> FALSE,
     execute_visible |-> TRUE, check_visible |-> TRUE, stop_visible |-> FALSE,
     hilo |-> "ninguno", senal |-> NoHaySenal, corridas |-> 0, terminada |-> 0,
     mensaje |-> "ninguno", solucion |-> [corrida |-> 0, m |-> 0]]

\* Lines 739-743: _mostrar_estado_listo.
MostrarEstadoListo(g) ==
    [g EXCEPT !.entry_visible = FALSE, !.ready_visible = TRUE,
              !.execute_enabled = TRUE, !.check_enabled = FALSE]

\* Lines 745-750: _limpiar_estado_archivos.
LimpiarEstadoArchivos(g) ==
    [g EXCEPT !.current_dzn_path = "ninguno", !.dzn = <<>>,
              !.execute_enabled = FALSE, !.check_enabled = FALSE]

\* Lines 934-939: _set_ui_during_execution.
SetUiDuringExecution(g, executing) ==
    [g EXCEPT !.import_txt_enabled = ~executing,
              !.import_dzn_enabled = ~executing,
              !.execute_visible = ~executing,
              !.check_visible = ~executing,
              !.stop_visible = executing]

\* The GUI thread handles its events in the order they were queued: once a
\* finished signal is queued, the clicks that come after it wait for it.
AtiendeClics == gui.pc = "ventana" /\ ~gui.senal.hay

\* ------------------------------------------------------------- inputs
\* The text files the user picks: one that converts, one too short.
ArchivosTxt ==
    {LineasDeArchivo(Num(1, "entero"), 1, 2, FALSE),
     LineasDeArchivo(Num(1, "entero"), 1, 1, FALSE)}

\* The data files the user picks: written by the converter, or by hand.
ArchivosDzn == {Convertido(1).archivo.contenido, Comentado(1)}

\* What a run that ends with success may have printed: nothing the parser
\* knows (=====UNSATISFIABLE=====), a polarization 0 alone, or a solution
\* with its polarization, its distribution and the matrix of the first tier.
SalidaSinResultados == <<Simple("otra")>>
SalidaSoloPolarizacion == <<Linea("pol_etq", 0, 0, <<>>)>>
SalidaCompleta(pol) ==
    <<Linea("pol_etq", 0, pol, <<>>), Simple("cab_dist"),
      Linea("opinion", 1, 2, <<>>), Simple("mediana"),
      Etiqueta(1), Fila(<<0, 1>>)>>
SalidasConExito ==
    {SalidaSinResultados, SalidaSoloPolarizacion, SalidaCompleta(0), SalidaCompleta(3)}

\* What a run that fails or is interrupted may have printed.
SalidasSinExito == {<<>>, SalidaSinResultados}

\* ------------------------------------------------------------- actions
\* Lines 707-723: a file is picked and converted.
ImportarArchivoTxt ==
    /\ AtiendeClics
    /\ gui.entry_visible /\ gui.import_txt_enabled
    /\ \E txt \in ArchivosTxt :
          LET c == Ejecutar(Llamada("gui", txt, Carpeta("gui"),
                                    [existe |-> FALSE, contenido |-> <<>>]))
          IN  gui' = IF c.retorno = "exito"
                       THEN MostrarEstadoListo(
                                [gui EXCEPT !.current_dzn_path = "tmp",
                                            !.dzn = c.archivo.contenido])
                       ELSE LimpiarEstadoArchivos(gui)
    /\ UNCHANGED <<verificador, parser, conversor, guardado, worker>>

\* Lines 725-737: a data file is picked.
ImportarArchivoDzn ==
    /\ AtiendeClics
    /\ gui.entry_visible /\ gui.import_dzn_enabled
    /\ \E contenido \in ArchivosDzn :
          gui' = MostrarEstadoListo([gui EXCEPT !.current_dzn_path = "dzn",
                                                !.dzn = contenido])
    /\ UNCHANGED <<verificador, parser, conversor, guardado, worker>>

\* Lines 697-705: 'Cambiar Archivo'.  The button is in the ready container
\* and is enabled as long as the container is shown.
VolverABotones ==
    /\ AtiendeClics
    /\ gui.ready_visible
    /\ gui' = [gui EXCEPT !.entry_visible = TRUE, !.ready_visible = FALSE,
                          !.current_dzn_path = "ninguno", !.dzn = <<>>,
                          !.execute_enabled = FALSE, !.check_enabled = FALSE]
    /\ UNCHANGED <<verificador, parser, conversor, guardado, worker>>

\* Lines 802-876: 'Ejecutar Modelo'.  The data file and the model may be
\* missing from the disk and the copy into DatosProyecto may fail; the
\* thread is started only when all three are in order.
EjecutarModelo ==
    /\ AtiendeClics
    /\ gui.execute_enabled /\ gui.execute_visible
    /\ gui.corridas < MaxCorridas
    /\ \E dzn_existe \in BOOLEAN, model_existe \in BOOLEAN, copiado \in BOOLEAN :
          LET g == [gui EXCEPT !.import_txt_enabled = FALSE,
                               !.import_dzn_enabled = FALSE,
                               !.execute_enabled = FALSE,
                               !.check_enabled = FALSE]
          IN  gui' =
                IF gui.current_dzn_path # "ninguno" /\ dzn_existe
                  THEN IF model_existe /\ copiado
                         THEN [SetUiDuringExecution(g, TRUE) EXCEPT
                                 !.hilo = "corriendo",
                                 !.corridas = @ + 1,
                                 !.mensaje = "ejecutando"]
                         ELSE [SetUiDuringExecution(g, FALSE) EXCEPT
                                 !.execute_enabled = TRUE,
                                 !.mensaje = "error"]
                  ELSE [g EXCEPT !.execute_enabled = TRUE, !.mensaje = "error"]
    /\ UNCHANGED <<verificador, parser, conversor, guardado, worker>>

\* Lines 249-251 of the worker, seen from the window: run() ends and its
\* finished signal, with the output and the flag, is queued for the GUI
\* thread.
RunEmiteFinished ==
    /\ gui.pc = "ventana"
    /\ gui.hilo = "corriendo"
    /\ \E success \in BOOLEAN :
         \E output \in IF success THEN SalidasConExito ELSE SalidasSinExito :
            gui' = [gui EXCEPT
                      !.hilo = "emitido",
                      !.senal = [hay |-> TRUE, corrida |-> gui.corridas,
                                 output |-> output, success |-> success]]
    /\ UNCHANGED <<verificador, parser, conversor, guardado, worker>>

\* Lines 941-952: 'Detener Ejecución'.  interrupt() makes a run() that is
\* still running end with the flag False; thread.wait() returns when run()
\* has ended, its signal queued.  A click on this button that was queued
\* before the signal is handled before it, even if run() has ended since.
StopExecution ==
    /\ gui.pc = "ventana"
    /\ gui.stop_visible
    /\ gui.hilo \in {"corriendo", "emitido"}
    /\ \E output \in SalidasSinExito :
          LET senal == IF gui.hilo = "emitido" THEN gui.senal
                       ELSE [hay |-> TRUE, corrida |-> gui.corridas,
                             output |-> output, success |-> FALSE]
          IN  gui' = [SetUiDuringExecution(gui, FALSE) EXCEPT
                        !.hilo = "detenido",
                        !.senal = senal,
                        !.mensaje = "detenida",
                        !.execute_enabled = TRUE,
                        !.check_enabled = FALSE]
    /\ UNCHANGED <<verificador, parser, conversor, guardado, worker>>

\* Line 897: pol_str == "0" and q_final == [].
ParserNoExtrajo(pol, q) == pol = 0 /\ q = <<>>

\* Lines 878-926: the finished signal is handled.  The output of a run that
\* succeeded is parsed and, unless the test of line 897 holds, the solution
\* file is written (with the m that _guardar_solucion_txt finds, lines
\* 983-989); parse_minizinc_output raises nothing.
OnMinizincFinished ==
    /\ gui.pc = "ventana"
    /\ gui.senal.hay
    /\ LET T == gui.senal.output
           corrida == gui.senal.corrida
           pol == BuscarPolarizacion(T)
           q == ExtraerDistribucion(T)
           xm == [k \in Niveles |-> MatrizDeNivel(T, k)]
           g == [gui EXCEPT !.stop_visible = FALSE,
                            !.execute_enabled = TRUE,
                            !.last_output = [corrida |-> corrida, texto |-> T],
                            !.hilo = "ninguno",
                            !.senal = NoHaySenal,
                            !.terminada = corrida]
           h == IF gui.senal.success
                  THEN IF ParserNoExtrajo(pol, q)
                         THEN [g EXCEPT
                                 !.last_x_matrices = [corrida |-> corrida, x |-> xm],
                                 !.last_polarizacion = pol,
                                 !.mensaje = "advertencia",
                                 !.check_enabled = TRUE]
                         ELSE [g EXCEPT
                                 !.last_x_matrices = [corrida |-> corrida, x |-> xm],
                                 !.last_polarizacion = pol,
                                 !.mensaje = "exito",
                                 !.solucion = [corrida |-> corrida,
                                               m |-> ObtenerM(gui.current_dzn_path, gui.dzn)],
                                 !.check_enabled = TRUE]
                  ELSE [g EXCEPT !.mensaje = "fallida", !.check_enabled = FALSE]
       IN  gui' = SetUiDuringExecution(h, FALSE)
    /\ UNCHANGED <<verificador, parser, conversor, guardado, worker>>

\* The keys _revisar_resultados reads from the dictionary.
ClavesRevisadas == {"p", "s", "v", "n", "m", "ct", "maxMovs"}

\* Lines 1041-1075: 'Revisar Resultados'.  parse_dzn_input raises on the
\* path None, a key may be missing from what it returns, and
\* verificar_solucion may raise: the message box of lines 1065-1069 is
\* shown and the buttons stay as they are.
RevisarResultados ==
    /\ AtiendeClics
    /\ gui.check_enabled /\ gui.check_visible
    /\ \E verificada \in BOOLEAN :
          LET params == ParseDznInput(gui.dzn)
              leido == /\ gui.current_dzn_path # "ninguno"
                       /\ params.exc = "ninguna"
                       /\ ClavesRevisadas \subseteq params.claves
          IN  gui' =
                IF gui.last_output.texto = <<>> \/ gui.last_x_matrices.corrida = 0
                  THEN [gui EXCEPT !.mensaje = "sin_resultados"]
                ELSE IF leido /\ verificada
                  THEN [gui EXCEPT !.mensaje = "verificacion",
                                   !.execute_enabled = FALSE,
                                   !.check_enabled = FALSE]
                ELSE [gui EXCEPT !.mensaje = "error_verificacion"]
    /\ UNCHANGED <<verificador, parser, conversor, guardado, worker>>

NextGui ==
    \/ ImportarArchivoTxt
    \/ ImportarArchivoDzn
    \/ VolverABotones
    \/ EjecutarModelo
    \/ RunEmiteFinished
    \/ StopExecution
    \/ OnMinizincFinished
    \/ RevisarResultados

InitGui ==
    /\ VerificadorInactivo
    /\ parser = Inactivo /\ conversor = Inactivo /\ guardado = Inactivo
    /\ worker = Inactivo
    /\ gui = GuiNueva

SpecGui == InitGui /\ [][NextGui]_vars

\* ----------------------------------------------------------------------
\* Claims about MinPolGUI
\* ----------------------------------------------------------------------
\* The handler of the finished signal has shown the outcome of a run that
\* ended with success, and nothing has replaced its message since.
ExitoMostrado == gui.mensaje \in {"advertencia", "exito"}

\* The text has no polarization in either form and no distribution header.
SinResultados(T) == IndicesDe(T, {"pol_etq", "pol_asg", "cab_dist"}) = {}

\* C21: when a run ended with success and its output has no polarization
\* and no distribution, the handler shows the warning, not the success
\* message, and writes no solution file for that run.
C21_Advertencia ==
    (ExitoMostrado /\ SinResultados(gui.last_output.texto)) =>
        /\ gui.mensaje = "advertencia"
        /\ gui.solucion.corrida # gui.terminada

\* C25: while 'Revisar Resultados' is enabled, current_dzn_path is set and
\* last_x_matrices holds the matrices of the latest run that finished.
C25_RevisarHabilitado ==
    gui.check_enabled =>
        /\ gui.current_dzn_path # "ninguno"
        /\ gui.terminada # 0
        /\ gui.last_x_matrices.corrida = gui.terminada

\* No run is in progress: no thread is running and no signal is queued.
SinEjecucion == gui.hilo = "ninguno" /\ ~gui.senal.hay

\* C26: while no run is in progress, both import buttons are enabled.
C26_ImportarHabilitado ==
    SinEjecucion => (gui.import_txt_enabled /\ gui.import_dzn_enabled)
====
